---- MODULE Spec2Model ----
(***************************************************************************)
(* GLINT chat client: message routing (detectApiType, makeApiCall,         *)
(* getDemoResponse) and conversation persistence (startNewChat, loadChat,  *)
(* saveCurrentChat, addMessage) over localStorage.                         *)
(*                                                                         *)
(* The repository holds two builds of the application script:              *)
(*   "part_000"  src/unnamed/part_000 (DeepSeek/DeepAI providers, loading  *)
(*               placeholder, voice provider refused in the browser)       *)
(*   "script.js" src/script.js (OpenAI-style providers, canned coding      *)
(*               reply, voice provider called with fetch)                  *)
(* The variable build says which of the two is running; it never changes.  *)
(***************************************************************************)
EXTENDS Integers, Sequences, FiniteSets, TLC

VARIABLES
    build,            \* which build of the script runs
    clsText,          \* classifier harness: the text handed to detectApiType
    clsType,          \* classifier harness: what detectApiType returned
    apiKeys,          \* localStorage glint_<type>_api, "" when absent
    selectedLanguage, \* localStorage selectedLanguage, "" when absent
    call,             \* gateway harness: the makeApiCall invocation in progress
    demo,             \* responder harness: the getDemoResponse call made last
    page,             \* the page the script runs in: "none", "chat", "other"
    now,              \* the value Date.now() returns
    currentChatId,    \* the script's global currentChatId
    navTo,            \* chat id of a location.replace not yet carried out
    glintChatList,    \* localStorage glintChatList (parsed), newest first
    malformed,        \* the localStorage keys whose value is not valid JSON
    messagesEl,       \* children of #messages, newest first (prepend)
    messagesHtml,     \* localStorage messages_html_<id>, <<>> when absent
    subs,             \* every addMessage(text, 'user') made, by number
    timers,           \* setTimeout callbacks not yet run, in scheduling order
    glintMediaStorage, \* localStorage glintMediaStorage (parsed), by chat id
    saves,            \* every savePhotoToStorage/saveVoiceToStorage call made
    theme,            \* localStorage theme, "" when absent
    htmlClass,        \* document.documentElement.className
    ev                \* what the last handler did (observation only)

vars ==
    << build, clsText, clsType, apiKeys, selectedLanguage, call, demo, page, now,
       currentChatId, navTo, glintChatList, malformed, messagesEl,
       messagesHtml, subs, timers, glintMediaStorage, saves, theme,
       htmlClass, ev >>

----------------------------------------------------------------------------
(* Bounds of the model. *)

\* A text is the concatenation of at most this many fragments.
MaxFragments == 3

----------------------------------------------------------------------------
(* Strings: a text is a tuple of one-character strings. *)

Builds == {"part_000", "script.js"}

Categories == {"text", "image", "voice", "coding"}

UpperChars ==
    << "A","B","C","D","E","F","G","H","I","J","K","L","M","N","O","P","Q","R","S","T","U","V","W","X","Y","Z" >>

LowerChars ==
    << "a","b","c","d","e","f","g","h","i","j","k","l","m","n","o","p","q","r","s","t","u","v","w","x","y","z" >>

\* String.prototype.toLowerCase, one character.
toLowerChar(c) ==
    IF \E i \in 1..Len(UpperChars) : UpperChars[i] = c
    THEN LowerChars[CHOOSE i \in 1..Len(UpperChars) : UpperChars[i] = c]
    ELSE c

\* String.prototype.toLowerCase.
toLowerCase(s) ==
    [i \in 1..Len(s) |-> toLowerChar(s[i])]

\* String.prototype.includes: k occurs in s as a contiguous substring.
includes(s, k) ==
    \E i \in 0..(Len(s) - Len(k)) :
        \A j \in 1..Len(k) : s[i + j] = k[j]

\* Array.prototype.some(keyword => lowerMsg.includes(keyword)).
someIncluded(list, lowerMsg) ==
    \E n \in 1..Len(list) : includes(lowerMsg, list[n])

\* detectApiType: imageKeywords (the same list in both builds).
imageKeywords ==
    << <<"i","m","a","g","e">>,
       <<"p","h","o","t","o">>,
       <<"p","i","c","t","u","r","e">>,
       <<"g","e","n","e","r","a","t","e"," ","i","m","a","g","e">>,
       <<"c","r","e","a","t","e"," ","i","m","a","g","e">>,
       <<"d","r","a","w">>,
       <<"v","i","s","u","a","l">>,
       <<"p","a","i","n","t","i","n","g">>,
       <<"a","r","t","w","o","r","k">> >>

\* detectApiType: voiceKeywords of script.js.
voiceKeywordsScript ==
    << <<"v","o","i","c","e">>,
       <<"s","p","e","e","c","h">>,
       <<"a","u","d","i","o">>,
       <<"r","e","c","o","r","d">>,
       <<"l","i","s","t","e","n">>,
       <<"s","p","e","a","k">>,
       <<"m","i","c","r","o","p","h","o","n","e">>,
       <<"s","o","u","n","d">> >>

\* The two keywords part_000 appends to voiceKeywords.
voiceKeywordsAdded ==
    << <<"t","e","x","t"," ","t","o"," ","s","p","e","e","c","h">>,
       <<"t","t","s">> >>

\* detectApiType: codingKeywords (the same list in both builds).
codingKeywords ==
    << <<"c","o","d","e">>,
       <<"f","u","n","c","t","i","o","n">>,
       <<"p","r","o","g","r","a","m">>,
       <<"s","c","r","i","p","t">>,
       <<"a","l","g","o","r","i","t","h","m">>,
       <<"d","e","b","u","g">>,
       <<"e","r","r","o","r">>,
       <<"f","i","x">>,
       <<"b","u","i","l","d">>,
       <<"c","r","e","a","t","e">>,
       <<"d","e","v","e","l","o","p">>,
       <<"w","r","i","t","e">>,
       <<"m","a","k","e">>,
       <<"j","a","v","a","s","c","r","i","p","t">>,
       <<"p","y","t","h","o","n">>,
       <<"h","t","m","l">>,
       <<"c","s","s">>,
       <<"r","e","a","c","t">>,
       <<"n","o","d","e">>,
       <<"a","p","i">>,
       <<"l","o","o","p">>,
       <<"a","r","r","a","y">>,
       <<"o","b","j","e","c","t">>,
       <<"c","l","a","s","s">>,
       <<"c","o","m","p","o","n","e","n","t">>,
       <<"d","a","t","a","b","a","s","e">>,
       <<"v","a","r","i","a","b","l","e">>,
       <<"s","y","n","t","a","x">> >>

\* handleCodingRequest: its own codingKeywords list (no 'variable', no 'syntax').
handleCodingKeywords ==
    << <<"c","o","d","e">>,
       <<"f","u","n","c","t","i","o","n">>,
       <<"p","r","o","g","r","a","m">>,
       <<"s","c","r","i","p","t">>,
       <<"a","l","g","o","r","i","t","h","m">>,
       <<"d","e","b","u","g">>,
       <<"e","r","r","o","r">>,
       <<"f","i","x">>,
       <<"b","u","i","l","d">>,
       <<"c","r","e","a","t","e">>,
       <<"d","e","v","e","l","o","p">>,
       <<"w","r","i","t","e">>,
       <<"m","a","k","e">>,
       <<"j","a","v","a","s","c","r","i","p","t">>,
       <<"p","y","t","h","o","n">>,
       <<"h","t","m","l">>,
       <<"c","s","s">>,
       <<"r","e","a","c","t">>,
       <<"n","o","d","e">>,
       <<"a","p","i">>,
       <<"l","o","o","p">>,
       <<"a","r","r","a","y">>,
       <<"o","b","j","e","c","t">>,
       <<"c","l","a","s","s">>,
       <<"c","o","m","p","o","n","e","n","t">>,
       <<"d","a","t","a","b","a","s","e">> >>

\* The pieces the classifier's input texts are concatenated from: keywords
\* of each list in either case, a keyword only part_000 knows, a keyword
\* handleCodingRequest lacks, and pieces that form a keyword ("api") only
\* when concatenated.
Fragments ==
    { <<"d","r","a","w">>,
      <<"P","h","o","t","o">>,
      <<"s","p","e","a","k">>,
      <<"T","T","S">>,
      <<"f","i","x">>,
      <<"S","y","n","t","a","x">>,
      <<"h","i"," ">>,
      <<"a","p">>,
      <<"i">> }
----------------------------------------------------------------------------
(* Classifier. *)

\* detectApiType: voiceKeywords; part_000 adds 'text to speech' and 'tts'.
voiceKeywords(b) ==
    IF b = "part_000"
    THEN voiceKeywordsScript \o voiceKeywordsAdded
    ELSE voiceKeywordsScript

\* A plausible slip: the coding check placed before the image check.
detectApiTypeCodingFirst(b, message) ==
    LET lowerMsg == toLowerCase(message) IN
    IF someIncluded(codingKeywords, lowerMsg) THEN "coding"
    ELSE IF someIncluded(imageKeywords, lowerMsg) THEN "image"
    ELSE IF someIncluded(voiceKeywords(b), lowerMsg) THEN "voice"
    ELSE "text"

\* detectApiType(message).
detectApiType(b, message) ==
    LET lowerMsg == toLowerCase(message) IN
    IF someIncluded(imageKeywords, lowerMsg) THEN "image"
    ELSE IF someIncluded(voiceKeywords(b), lowerMsg) THEN "voice"
    ELSE IF someIncluded(codingKeywords, lowerMsg) THEN "coding"
    ELSE "text"

----------------------------------------------------------------------------
(* KeyStore and ProviderGateway. *)

\* localStorage.getItem(...) returned null: the key is absent.
NoValue == ""

\* The values a credential key can hold: absent, or a non-blank secret.
KeyValues == {NoValue, "sk-1"}

\* The three languages the templates know, and a value none of them.
Languages == {"roman-urdu", "urdu", "english"}

StoredLanguages == {NoValue} \cup Languages \cup {"french"}

\* getApiKey(type): localStorage.getItem('glint_<type>_api') || ''.
getApiKey(type, keys) ==
    CASE type = "text" -> keys["text"]
      [] type = "image" -> keys["image"]
      [] type = "voice" -> keys["voice"]
      [] type = "coding" -> keys["coding"]
      [] OTHER -> keys["text"]

\* An Error object: its constructor, what its message says, the HTTP status
\* the message quotes ("" when it quotes none).
Err(name, tag, status) ==
    [name |-> name, tag |-> tag, status |-> status]

NoError == Err("", "", "")

\* makeApiCall: new Error(`${type.toUpperCase()} API key not configured. ...`).
NotConfiguredError(type) ==
    Err("Error", "API key not configured", "")

\* callVoiceApi of part_000: the message picked by selectedLanguage,
\* localStorage.getItem('selectedLanguage') || 'roman-urdu'.
voiceProxyMessage(lang) ==
    LET language == IF lang = NoValue THEN "roman-urdu" ELSE lang IN
    IF language = "roman-urdu"
    THEN "backend proxy ki zaroorat (roman-urdu)"
    ELSE "backend proxy is required (english)"

\* What the synchronous part of a call ends in.
Throws(e) ==
    [kind |-> "throw", error |-> e, endpoint |-> "", value |-> <<>>]

Fetches(url) ==
    [kind |-> "fetch", error |-> NoError, endpoint |-> url, value |-> <<>>]

Returns(v) ==
    [kind |-> "return", error |-> NoError, endpoint |-> "", value |-> v]

\* The URL each call...Api function fetches.
endpointOf(b, type) ==
    IF b = "part_000"
    THEN CASE type = "text" -> "api.deepseek.com/v1/chat/completions#deepseek-chat"
           [] type = "coding" -> "api.deepseek.com/v1/chat/completions#deepseek-coder"
           [] OTHER -> "api.deepai.org/api/text2img"
    ELSE CASE type = "text" -> "api.openai.com/v1/chat/completions"
           [] type = "coding" -> "api.openai.com/v1/chat/completions#coding"
           [] type = "voice" -> "api.openai.com/v1/audio/transcriptions"
           [] OTHER -> "api.openai.com/v1/images/generations"

\* callVoiceApi up to its first suspension: part_000 throws the proxy
\* message at once, script.js posts the audio to the transcription endpoint.
callVoiceApi(b, lang) ==
    IF b = "part_000"
    THEN Throws(Err("Error", voiceProxyMessage(lang), ""))
    ELSE Fetches(endpointOf(b, "voice"))

\* A plausible slip: the key check dropped, the provider called regardless.
makeApiCallNoKeyCheck(b, type, keys, lang) ==
    IF type = "voice" THEN callVoiceApi(b, lang)
    ELSE IF type \in Categories THEN Fetches(endpointOf(b, type))
    ELSE Throws(Err("Error", "Unknown API type", ""))

\* A plausible slip: the voice case taken before the key check.
makeApiCallVoiceFirst(b, type, keys, lang) ==
    LET apiKey == getApiKey(type, keys) IN
    IF type = "voice" THEN callVoiceApi(b, lang)
    ELSE IF apiKey = NoValue THEN Throws(NotConfiguredError(type))
    ELSE IF type \in Categories THEN Fetches(endpointOf(b, type))
    ELSE Throws(Err("Error", "Unknown API type", ""))

\* makeApiCall(type, content) up to its first suspension point: the key
\* check, then the switch over type; the catch logs and rethrows.
makeApiCall(b, type, keys, lang) ==
    LET apiKey == getApiKey(type, keys) IN
    IF apiKey = NoValue THEN Throws(NotConfiguredError(type))
    ELSE IF type = "voice" THEN callVoiceApi(b, lang)
    ELSE IF type \in Categories THEN Fetches(endpointOf(b, type))
    ELSE Throws(Err("Error", "Unknown API type", ""))

\* What a provider can answer: a network failure (fetch rejects), a
\* non-success status, a success whose body is not JSON, a success whose
\* JSON is {} (no choices, data, output_url or text), a success whose
\* JSON has the containers but not the leaf (content, url), a well-formed
\* success.
Responses == {"neterr", "http401", "badjson", "emptyobj", "noleaf", "ok"}

statusOf(resp) ==
    IF resp = "http401" THEN "401" ELSE "200"

\* The rest of call...Api once fetch has settled with resp.
callApiResume(b, type, resp) ==
    IF resp = "neterr" THEN Throws(Err("TypeError", "Failed to fetch", ""))
    ELSE IF resp = "http401"
    THEN Throws(Err("Error", "API error with status", statusOf(resp)))
    ELSE IF resp = "badjson"
    THEN Throws(Err("SyntaxError", "Unexpected token", ""))
    ELSE IF resp = "emptyobj"
    THEN IF (type = "image" /\ b = "part_000") \/ type = "voice"
         THEN Returns(<<"undefined">>)
         ELSE Throws(Err("TypeError", "Cannot read properties of undefined", ""))
    ELSE IF resp = "noleaf"
    THEN IF b = "part_000" /\ type \in {"text", "coding"}
         THEN Throws(Err("TypeError", "Cannot read properties of undefined", ""))
         ELSE Returns(<<"undefined">>)
    ELSE IF type = "image" THEN Returns(<<"http://image">>)
    ELSE Returns(<<"reply text">>)

\* How the message of a thrown dispatch error classifies (section 7).
IsConfigurationError(e) ==
    e.tag = "API key not configured"

IsTransportUnsupportedError(e) ==
    e.tag \in {voiceProxyMessage(l) : l \in StoredLanguages}

----------------------------------------------------------------------------
(* Bounds of the session model. *)

\* Date.now() takes the values 0..MaxClock.
MaxClock == 2

\* startNewChat is not run once the registry holds this many chats.
MaxChats == 2

\* At most this many addMessage(text, 'user') calls are made.
MaxSubs == 2

\* At most this many save calls are made on the media store.
MaxSaves == 2

\* Clock values that fall into one minute of the displayed chat name.
MinuteTicks == 2

----------------------------------------------------------------------------
(* ConversationStore and ChatSession. *)

\* let currentChatId = null.
NoChat == -1

\* 'chat-' + Date.now(): the id is the clock value.
ChatIds == 0..MaxClock

\* The keys of mediaStorage: a chat id, or null.
MediaChats == ChatIds \cup {NoChat}

\* The texts submitted in the session model: "hi " (text), "speak"
\* (voice) and "fix" (coding, and a keyword of handleCodingRequest).
SubmitTexts ==
    { <<"h","i"," ">>, <<"s","p","e","a","k">>, <<"f","i","x">> }

\* The categories those texts fall in: the credentials the session reads.
SessionCategories == {"text", "voice", "coding"}

\* startNewChat: { id: newId, name: chatName, date: new Date().toISOString() };
\* toLocaleString shows day, month, hour and minute only.
newChat(t) ==
    [id |-> t, name |-> t \div MinuteTicks, date |-> t]

\* What the header shows: 'Nai Chat ' and the minute of creation, or
\* "Glint Chat".
DefaultTitle ==
    [text |-> "Glint Chat", minute |-> NoChat]

\* No name was looked up.
NoTitle ==
    [text |-> "", minute |-> NoChat]

\* One child of #messages: className, the addMessage call it belongs to
\* (0: none), its content, and whether a closure of the running page still
\* holds the node.
Bubble(cls, s, body, live) ==
    [cls |-> cls, sub |-> s, body |-> body, live |-> live]

\* messagesEl.innerHTML read: the markup of the children; node identity is
\* not part of it.
innerHTML(view) ==
    [i \in 1..Len(view) |-> [view[i] EXCEPT !.live = FALSE]]

\* messagesEl.innerHTML = html: fresh nodes, none held by any closure.
parseHTML(html) ==
    [i \in 1..Len(html) |-> [html[i] EXCEPT !.live = FALSE]]

\* A plausible slip: appendChild where prepend is meant.
prependAtEnd(view, node) ==
    view \o <<node>>

\* messagesEl.prepend(node).
prepend(view, node) ==
    <<node>> \o view

\* loadingMessage.remove(): detaches the node the closure holds, if attached.
removeLoading(view, s) ==
    LET keep == {i \in 1..Len(view) :
                    ~(view[i].live /\ view[i].sub = s
                      /\ view[i].cls = "bot loading-message")}
        pos(k) == CHOOSE i \in keep : Cardinality({j \in keep : j <= i}) = k
    IN [k \in 1..Cardinality(keep) |-> view[pos(k)]]

\* document.getElementById('messages') is found on the chat page only.
hasMessagesEl(pg) ==
    pg = "chat"

\* The script's globals, the DOM and the chat keys of localStorage, threaded
\* through the statements of one handler; threw: an exception left the call;
\* created: the ids startNewChat generated in the handler, in order;
\* caught: the catch branch of the reply callback ran; loaded: the id
\* loadChat was last called with in the handler (NoChat: not called);
\* title: the name loadChat last looked up for the header in the handler.
World ==
    [currentChatId |-> currentChatId, navTo |-> navTo,
     glintChatList |-> glintChatList, messagesEl |-> messagesEl,
     messagesHtml |-> messagesHtml, threw |-> FALSE, created |-> <<>>,
     caught |-> FALSE, loaded |-> NoChat, title |-> NoTitle]

\* A plausible slip: the header shows the name of the newest chat.
chatTitleOfNewest(chatList, chatId) ==
    IF chatList = <<>> THEN DefaultTitle
    ELSE [text |-> "Nai Chat", minute |-> chatList[1].name]

\* loadChat: chatList.find(c => c.id === chatId), then currentChatData.name
\* or the default name for the header.
chatTitle(chatList, chatId) ==
    LET hits == {i \in 1..Len(chatList) : chatList[i].id = chatId} IN
    IF hits = {} THEN DefaultTitle
    ELSE [text |-> "Nai Chat",
          minute |-> chatList[CHOOSE i \in hits : \A j \in hits : i <= j].name]

\* A plausible slip: the stored history is not rendered on load.
loadChatBlank(w, chatId, pg, mal) ==
    IF ~hasMessagesEl(pg) THEN [w EXCEPT !.loaded = chatId]
    ELSE LET w1 == [w EXCEPT !.loaded = chatId, !.currentChatId = chatId,
                             !.messagesEl = <<>>]
         IN IF "glintChatList" \in mal
            THEN [w1 EXCEPT !.threw = TRUE]
            ELSE w1

\* A plausible slip: a chat the registry does not hold is not loaded.
loadChatRegisteredOnly(w, chatId, pg, mal) ==
    IF ~hasMessagesEl(pg) THEN [w EXCEPT !.loaded = chatId]
    ELSE IF "glintChatList" \in mal
    THEN [w EXCEPT !.loaded = chatId, !.threw = TRUE]
    ELSE IF \A i \in 1..Len(w.glintChatList) : w.glintChatList[i].id # chatId
    THEN [w EXCEPT !.loaded = chatId, !.currentChatId = NoChat]
    ELSE [w EXCEPT !.loaded = chatId, !.currentChatId = chatId,
                   !.messagesEl = parseHTML(w.messagesHtml[chatId])]

\* loadChat(chatId).
loadChat(w, chatId, pg, mal) ==
    IF ~hasMessagesEl(pg) THEN [w EXCEPT !.loaded = chatId]
    ELSE LET w1 == [w EXCEPT !.loaded = chatId, !.currentChatId = chatId,
                             !.messagesEl = parseHTML(w.messagesHtml[chatId])]
         IN IF "glintChatList" \in mal
            THEN [w1 EXCEPT !.threw = TRUE]
            ELSE [w1 EXCEPT !.title = chatTitle(w.glintChatList, chatId)]

\* A plausible slip: push instead of unshift.
startNewChatAppends(w, shouldReload, t, pg, mal) ==
    IF "glintChatList" \in mal THEN [w EXCEPT !.threw = TRUE]
    ELSE LET w1 == [w EXCEPT !.glintChatList = @ \o <<newChat(t)>>,
                             !.created = Append(@, t)] IN
         IF shouldReload THEN [w1 EXCEPT !.navTo = t]
         ELSE loadChat([w1 EXCEPT !.currentChatId = t], t, pg, mal)

\* startNewChat(shouldReload) run when Date.now() is t.
startNewChat(w, shouldReload, t, pg, mal) ==
    IF "glintChatList" \in mal THEN [w EXCEPT !.threw = TRUE]
    ELSE LET w1 == [w EXCEPT !.glintChatList = <<newChat(t)>> \o @,
                             !.created = Append(@, t)] IN
         IF shouldReload THEN [w1 EXCEPT !.navTo = t]
         ELSE loadChat([w1 EXCEPT !.currentChatId = t], t, pg, mal)

\* A plausible slip: the save keyed by the newest registered chat.
saveCurrentChatToHead(w, pg) ==
    IF w.currentChatId = NoChat THEN w
    ELSE IF hasMessagesEl(pg) /\ w.glintChatList # <<>>
    THEN [w EXCEPT !.messagesHtml[w.glintChatList[1].id] = innerHTML(w.messagesEl)]
    ELSE w

\* A plausible slip: the view added to the stored history, not put in
\* its place.
saveCurrentChatAppends(w, pg) ==
    IF w.currentChatId = NoChat THEN w
    ELSE IF hasMessagesEl(pg)
    THEN [w EXCEPT !.messagesHtml[w.currentChatId] = innerHTML(w.messagesEl) \o @]
    ELSE w

\* saveCurrentChat().
saveCurrentChat(w, pg) ==
    IF w.currentChatId = NoChat THEN w
    ELSE IF hasMessagesEl(pg)
    THEN [w EXCEPT !.messagesHtml[w.currentChatId] = innerHTML(w.messagesEl)]
    ELSE w

\* Property names every object literal inherits from Object.prototype
\* (three of them): responses[apiType][name] is a function, or the
\* prototype object, and truthy.
ObjectPrototypeNames == {"constructor", "toString", "__proto__"}

\* The languages getDemoResponse is called with on its own.
DemoLanguages == StoredLanguages \cup ObjectPrototypeNames

\* responses[apiType][language], language one of the three keys: the text
\* template as written, the others with userMessage put in.
demoTemplate(language, apiType, userMessage) ==
    <<"demo", apiType, language>> \o
        (IF apiType = "text" THEN <<>> ELSE userMessage)

\* getDemoResponse(language, apiType, userMessage):
\* responses[apiType][language] || responses[apiType]['english'], the
\* lookup going through the prototype chain of the object literal.
getDemoResponse(language, apiType, userMessage) ==
    IF language \in Languages
    THEN demoTemplate(language, apiType, userMessage)
    ELSE IF language \in ObjectPrototypeNames
    THEN <<"Object.prototype", language>>
    ELSE demoTemplate("english", apiType, userMessage)

\* A plausible slip: the canned reply given to the messages the classifier
\* calls coding, not to those that hold a keyword of the function's list.
handleCodingRequestByCategory(b, text, lang) ==
    IF b = "script.js" /\ detectApiType(b, text) = "coding"
    THEN <<"canned coding reply",
           IF lang \in {"roman-urdu", "urdu"} THEN lang ELSE "english">>
    ELSE <<>>

\* handleCodingRequest(text): null (here <<>>) unless script.js finds one of
\* its keywords; part_000 returns null on every path.
handleCodingRequest(b, text, lang) ==
    IF b = "script.js" /\ someIncluded(handleCodingKeywords, toLowerCase(text))
    THEN <<"canned coding reply",
           IF lang \in {"roman-urdu", "urdu"} THEN lang ELSE "english">>
    ELSE <<>>

\* The characters String.prototype.trim removes (two of them).
Whitespace == {" ", "\t"}

\* localStorage holds strings: the characters of a stored key.
keyText(v) ==
    IF v = "sk-1" THEN <<"s","k","-","1">> ELSE <<>>

\* What surrounds a key typed into an input field of the settings page.
Paddings == { <<>>, <<" ", "\t">> }

\* The texts an input field of the settings page holds on a click.
SettingsInputs ==
    {before \o keyText(v) \o after :
        v \in KeyValues, before \in Paddings, after \in Paddings}

\* String.prototype.trim.
trim(s) ==
    LET solid == {i \in 1..Len(s) : s[i] \notin Whitespace} IN
    IF solid = {} THEN <<>>
    ELSE SubSeq(s, CHOOSE i \in solid : \A j \in solid : i <= j,
                   CHOOSE i \in solid : \A j \in solid : i >= j)

\* A plausible slip: an empty input leaves the stored key in place.
saveApiKeyKeepsOnEmpty(keys, type, input) ==
    LET apiKey == trim(input) IN
    IF apiKey # <<>>
    THEN [keys EXCEPT ![type] = CHOOSE v \in KeyValues : keyText(v) = apiKey]
    ELSE keys

\* The click handler of a save button of the settings page: setItem of the
\* trimmed input, removeItem when it is empty.
saveApiKey(keys, type, input) ==
    LET apiKey == trim(input) IN
    IF apiKey # <<>>
    THEN [keys EXCEPT ![type] = CHOOSE v \in KeyValues : keyText(v) = apiKey]
    ELSE [keys EXCEPT ![type] = NoValue]

----------------------------------------------------------------------------
(* Theme: applyTheme, initializeTheme (src/unnamed/part_001). *)

\* The values localStorage theme holds when the page loads: absent, the
\* string 'null', the two themes, a name of neither, a theme in capitals.
StoredThemes == {NoValue, "null", "dark", "light", "blue", "Dark"}

\* A plausible slip: only a missing name falls back to light.
applyThemeUnchecked(themeName) ==
    LET name == IF themeName = NoValue THEN "light" ELSE themeName
    IN [htmlClass |-> name, theme |-> name]

\* applyTheme(themeName): the class of the html element and the stored
\* theme after it.
applyTheme(themeName) ==
    LET name == IF themeName = NoValue \/ themeName = "null"
                   \/ themeName \notin {"dark", "light"}
                THEN "light" ELSE themeName
    IN [htmlClass |-> name, theme |-> name]

\* initializeTheme(), localStorage theme holding stored.
initializeTheme(stored) ==
    LET saved == IF stored = NoValue THEN "light" ELSE stored
        savedTheme == IF saved \notin {"dark", "light"} THEN "light" ELSE saved
    IN applyTheme(savedTheme)

----------------------------------------------------------------------------
(* MediaStore: savePhotoToStorage, saveVoiceToStorage, getChatMedia. *)

\* What a save call holds while no id has been generated for it.
NoId ==
    [type |-> "", t |-> NoChat]

\* 'photo-' + Date.now(), 'voice-' + Date.now().
mediaId(type, t) ==
    [type |-> type, t |-> t]

\* photoData, voiceData: the entry pushed to mediaStorage[currentChatId];
\* save (the number of the save call) stands for data and fileName.
mediaItem(id, chat, n) ==
    [id |-> id, chatId |-> chat, type |-> id.type, save |-> n]

\* One save call: 'photo' or 'voice', where it stands ("reading": the
\* FileReader runs; "stored": the id was returned or resolved; "null":
\* savePhotoToStorage returned null; "rejected": the promise rejected;
\* "hung": onload threw and the promise never settles; "abandoned": the
\* page was left), the id it generated, the chat it stored under, and the
\* save calls whose FileReader was still running when its own finished.
NewSave(kind) ==
    [kind |-> kind, stage |-> "new", id |-> NoId, chat |-> NoChat,
     pendingAtLoad |-> {}]

\* A plausible slip: mediaStorage[currentChatId] = [] on every save.
pushMediaReplaces(media, chat, item) ==
    [media EXCEPT ![chat] = <<item>>]

\* A plausible slip: unshift, as startNewChat does, where push is meant.
pushMediaFirst(media, chat, item) ==
    [media EXCEPT ![chat] = <<item>> \o @]

\* mediaStorage after mediaStorage[currentChatId].push(item) and setItem.
pushMedia(media, chat, item) ==
    [media EXCEPT ![chat] = Append(@, item)]

\* A plausible slip: the currentChatId check dropped.
savePhotoToStorageNoCheck(chat, media, mal, t, n) ==
    IF "glintMediaStorage" \in mal THEN [media |-> media, id |-> NoId]
    ELSE [media |-> pushMedia(media, chat, mediaItem(mediaId("photo", t), chat, n)),
          id |-> mediaId("photo", t)]

\* savePhotoToStorage(imageData, fileName), save call n, Date.now() = t:
\* the index after it and the id returned (NoId: null).
savePhotoToStorage(chat, media, mal, t, n) ==
    IF chat = NoChat THEN [media |-> media, id |-> NoId]
    ELSE IF "glintMediaStorage" \in mal THEN [media |-> media, id |-> NoId]
    ELSE [media |-> pushMedia(media, chat, mediaItem(mediaId("photo", t), chat, n)),
          id |-> mediaId("photo", t)]

\* reader.onload of saveVoiceToStorage, save call n, Date.now() = t: reads
\* the index, pushes, writes, resolves(voiceId). JSON.parse throws out of
\* the callback on a malformed index (NoId: the promise never settles).
voiceOnload(chat, media, mal, t, n) ==
    IF "glintMediaStorage" \in mal THEN [media |-> media, id |-> NoId]
    ELSE [media |-> pushMedia(media, chat, mediaItem(mediaId("voice", t), chat, n)),
          id |-> mediaId("voice", t)]

\* A plausible slip: the list returned newest first.
getChatMediaNewestFirst(chat, media, mal) ==
    IF chat = NoChat THEN <<>>
    ELSE IF "glintMediaStorage" \in mal THEN <<>>
    ELSE [k \in 1..Len(media[chat]) |-> media[chat][Len(media[chat]) + 1 - k]]

\* getChatMedia().
getChatMedia(chat, media, mal) ==
    IF chat = NoChat THEN <<>>
    ELSE IF "glintMediaStorage" \in mal THEN <<>>
    ELSE media[chat]

\* chatMedia.find(item => item.id === mediaId): the first match, or none.
findMedia(chatMedia, id) ==
    LET hits == {k \in 1..Len(chatMedia) : chatMedia[k].id = id} IN
    IF hits = {} THEN <<>>
    ELSE <<chatMedia[CHOOSE k \in hits : \A j \in hits : k <= j]>>

\* The save calls whose FileReader runs.
reading ==
    {n \in 1..Len(saves) : saves[n].stage = "reading"}

\* Navigation: the FileReaders of the page are abandoned with it.
abandonSaves(ss) ==
    [n \in 1..Len(ss) |->
        IF ss[n].stage = "reading" THEN [ss[n] EXCEPT !.stage = "abandoned"]
        ELSE ss[n]]

----------------------------------------------------------------------------
(* addMessage and its callbacks. *)

\* One addMessage(text, 'user') call: its text, the category detectApiType
\* gave it ("" until the message is accepted), the chat that was current
\* when it was accepted, the canned reply script.js computed for it, where
\* it stands, the fetch calls made for it, the times addMessage ran for it,
\* the chats its recovery branch created, the way its reply was produced
\* ("demo", "canned", "provider"), how the try block of its callback
\* ended ("returned", "threw"), the credential stored for its category when
\* its callback started, what the provider answered ("" when nothing), and
\* its place in the order in which the callbacks ended (0: not yet).
NewSub(text) ==
    [text |-> text, apiType |-> "", chat |-> NoChat, canned |-> <<>>,
     stage |-> "new", fetches |-> 0, tries |-> 0, recovered |-> 0,
     path |-> "", outcome |-> "", credential |-> NoValue, resp |-> "",
     rank |-> 0]

\* The body of addMessage(text, 'user') for call number s, run when
\* Date.now() is t: the recovery branch, or the user bubble, the loading
\* bubble and the timer. Gives the world after it, the call's record and
\* the timer it armed ("" when none).
addMessage(w, sub, s, pg, mal, t, b, lang) ==
    IF ~hasMessagesEl(pg) \/ w.currentChatId = NoChat
    THEN LET w1 == startNewChat(w, FALSE, t, pg, mal) IN
         IF w1.threw
         THEN [w |-> w1, timer |-> "",
               sub |-> [sub EXCEPT !.stage = "dropped", !.tries = @ + 1]]
         ELSE [w |-> w1, timer |-> "retry",
               sub |-> [sub EXCEPT !.stage = "retry", !.tries = @ + 1,
                                   !.recovered = @ + 1]]
    ELSE LET apiType == detectApiType(b, sub.text)
             codingResponse == handleCodingRequest(b, sub.text, lang)
             v1 == prepend(w.messagesEl, Bubble("user", s, sub.text, FALSE))
             v2 == IF b = "part_000"
                   THEN prepend(v1, Bubble("bot loading-message", s,
                                           <<"spinner", apiType>>, TRUE))
                   ELSE v1
         IN [w |-> [w EXCEPT !.messagesEl = v2],
             timer |-> IF codingResponse # <<>> THEN "canned" ELSE "reply",
             sub |-> [sub EXCEPT !.stage = "timer", !.apiType = apiType,
                                 !.chat = w.currentChatId,
                                 !.canned = codingResponse,
                                 !.tries = @ + 1]]

\* A plausible slip: the catch branch only removes the loading bubble and
\* logs the error.
showErrorLogsOnly(w, s, apiType, e, b, pg) ==
    [w EXCEPT !.messagesEl = IF b = "part_000" THEN removeLoading(@, s) ELSE @,
              !.caught = TRUE]

\* The catch branch of the reply callback.
showError(w, s, apiType, e, b, pg) ==
    LET v1 == IF b = "part_000" THEN removeLoading(w.messagesEl, s)
              ELSE w.messagesEl
        body == IF b = "part_000" /\ apiType = "voice"
                   /\ e.tag \in {voiceProxyMessage(l) : l \in StoredLanguages}
                THEN <<e.tag>>
                ELSE <<"API Error", e.tag, e.status>>
    IN saveCurrentChat(
           [w EXCEPT !.messagesEl = prepend(v1, Bubble("bot error", s, body, FALSE)),
                     !.caught = TRUE],
           pg)

\* A plausible slip: the reply bubble shown but the history not saved.
showReplyNoSave(w, s, apiType, botResponse, b, pg) ==
    LET v1 == IF b = "part_000" THEN removeLoading(w.messagesEl, s)
              ELSE w.messagesEl
    IN [w EXCEPT !.messagesEl = prepend(v1, Bubble("bot", s, botResponse, FALSE))]

\* The try branch of the reply callback from "Loading message hatao" on:
\* part_000 calls botResponse.replace, which throws on undefined and lands
\* in the catch branch; script.js assigns textContent.
showReply(w, s, apiType, botResponse, b, pg) ==
    LET v1 == IF b = "part_000" THEN removeLoading(w.messagesEl, s)
              ELSE w.messagesEl
        isUrl == botResponse = <<"http://image">>
        body == IF apiType = "image" /\ isUrl THEN <<"img">> \o botResponse
                ELSE IF botResponse = <<"undefined">> THEN <<>>
                ELSE botResponse
    IN IF b = "part_000" /\ botResponse = <<"undefined">>
       THEN showError([w EXCEPT !.messagesEl = v1], s, apiType,
                      Err("TypeError", "Cannot read properties of undefined", ""),
                      b, pg)
       ELSE saveCurrentChat(
                [w EXCEPT !.messagesEl = prepend(v1, Bubble("bot", s, body, FALSE))],
                pg)

\* The canned-reply callback of script.js.
showCanned(w, s, codingResponse, pg) ==
    saveCurrentChat(
        [w EXCEPT !.messagesEl = prepend(@, Bubble("bot", s, codingResponse, FALSE))],
        pg)

\* The text the capture handler hands to addMessage.
PhotoCapturedText ==
    <<"P","h","o","t","o"," ","c","a","p","t","u","r","e","d"," ","f","r",
       "o","m"," ","c","a","m","e","r","a","!">>

\* The text the voice save handler hands to addMessage:
\* `Voice message: voice-message-${Date.now()}.wav`, Date.now() being 0.
VoiceMessageText ==
    <<"V","o","i","c","e"," ","m","e","s","s","a","g","e",":"," ","v","o",
       "i","c","e","-","m","e","s","s","a","g","e","-","0",".","w","a",
       "v">>

\* displayMediaInChat(mediaId, mediaType): the entry looked up under the
\* current chat, its bubble prepended, the history saved. A malformed index
\* throws into the catch; mediaStorage[null] holds nothing.
displayMediaInChat(w, media, mal, id, pg) ==
    IF "glintMediaStorage" \in mal \/ w.currentChatId = NoChat THEN w
    ELSE LET hit == findMedia(media[w.currentChatId], id) IN
         IF hit = <<>> \/ ~hasMessagesEl(pg) THEN w
         ELSE saveCurrentChat(
                  [w EXCEPT !.messagesEl =
                      prepend(@, Bubble("user media-message", 0,
                                        <<"media", hit[1].type, hit[1].save>>, FALSE))],
                  pg)

\* A plausible slip: the recovery of the user branch taken for a bot
\* message too, a chat made for it.
addBotMessageRecovers(w, text, pg) ==
    IF ~hasMessagesEl(pg) \/ w.currentChatId = NoChat
    THEN startNewChat(w, FALSE, 0, pg, {})
    ELSE [w EXCEPT !.messagesEl = prepend(@, Bubble("bot", 0, text, FALSE))]

\* addMessage(text, 'bot'): a bot bubble, nothing saved, nothing armed.
addBotMessage(w, text, pg) ==
    IF ~hasMessagesEl(pg) \/ w.currentChatId = NoChat THEN w
    ELSE [w EXCEPT !.messagesEl = prepend(@, Bubble("bot", 0, text, FALSE))]

----------------------------------------------------------------------------
(* Actions. *)

Commit(w) ==
    /\ currentChatId' = w.currentChatId
    /\ navTo' = w.navTo
    /\ glintChatList' = w.glintChatList
    /\ messagesEl' = w.messagesEl
    /\ messagesHtml' = w.messagesHtml

\* What a handler did: its name, the addMessage call it ran for (0: none),
\* the chat ids startNewChat generated in it, whether startNewChat or
\* loadChat threw in it, the id loadChat was called with in it and the
\* name it looked up.
Event(op, s, w) ==
    [op |-> op, sub |-> s, created |-> w.created, threw |-> w.threw,
     save |-> 0, media |-> <<>>, loaded |-> w.loaded, title |-> w.title,
     key |-> "", input |-> <<>>, themeName |-> ""]

\* save: the save call a media handler ran for (0: none); media: the list
\* getChatMedia returned; key, input: the category of the settings page's
\* save button that was clicked and the text its input field held;
\* themeName: the argument applyTheme was called with.
NoEvent ==
    [op |-> "", sub |-> 0, created |-> <<>>, threw |-> FALSE,
     save |-> 0, media |-> <<>>, loaded |-> NoChat, title |-> NoTitle,
     key |-> "", input |-> <<>>, themeName |-> ""]

Did(op) ==
    [NoEvent EXCEPT !.op = op]

IdleCall ==
    [type |-> "", apiKey |-> NoValue, phase |-> "idle", error |-> NoError,
     value |-> <<>>, endpoint |-> "", fetches |-> 0]

IdleDemo ==
    [language |-> NoValue, apiType |-> "", userMessage |-> <<>>, value |-> <<>>]

themeVars == << theme, htmlClass >>

harnessVars == << clsText, clsType, call, demo >>

mediaVars == << glintMediaStorage, saves >>

storeVars == << currentChatId, navTo, glintChatList, messagesEl, messagesHtml >>

\* Navigation and unload: every timer and every pending fetch of the page
\* is abandoned with it.
abandon(ss) ==
    [i \in 1..Len(ss) |->
        IF ss[i].stage \in {"retry", "timer", "inflight"}
        THEN [ss[i] EXCEPT !.stage = "abandoned"]
        ELSE ss[i]]

\* The wall clock moves on.
Tick ==
    /\ now < MaxClock
    /\ now' = now + 1
    /\ ev' = Did("tick")
    /\ UNCHANGED << build, themeVars, mediaVars, harnessVars, apiKeys, selectedLanguage, page,
                    storeVars, malformed, subs, timers >>

\* A page of the site is loaded and its DOMContentLoaded handler runs:
\* on the chat page loadChat(chatId) for ?chatId=..., else startNewChat().
\* Loading takes time: Date.now() has moved on when the handler runs.
PageLoad(kind, requestedChatId) ==
    /\ now < MaxClock
    /\ navTo # NoChat => (kind = "chat" /\ requestedChatId = navTo)
    /\ (kind = "chat" /\ requestedChatId = NoChat) =>
            Len(glintChatList) < MaxChats
    /\ LET fresh == [World EXCEPT !.currentChatId = NoChat, !.navTo = NoChat,
                                  !.messagesEl = <<>>]
           w == IF kind # "chat" THEN fresh
                ELSE IF requestedChatId # NoChat
                THEN loadChat([fresh EXCEPT !.currentChatId = requestedChatId],
                              requestedChatId, kind, malformed)
                ELSE startNewChat(fresh, FALSE, now + 1, kind, malformed)
       IN /\ Commit(w)
          /\ ev' = Event("load", 0, w)
    /\ page' = kind
    /\ now' = now + 1
    /\ subs' = abandon(subs)
    /\ timers' = <<>>
    /\ saves' = abandonSaves(saves)
    /\ UNCHANGED << build, themeVars, glintMediaStorage, harnessVars, apiKeys,
                    selectedLanguage, malformed >>

\* The New Chat button: startNewChat(true).
NewChatClick ==
    /\ page # "none"
    /\ Len(glintChatList) < MaxChats
    /\ LET w == startNewChat(World, TRUE, now, page, malformed) IN
          /\ Commit(w)
          /\ ev' = Event("newchat", 0, w)
    /\ UNCHANGED << build, themeVars, mediaVars, harnessVars, apiKeys, selectedLanguage, page, now,
                    malformed, subs, timers >>

\* Arms setTimeout(callback) for call s.
arm(ts, kind, s, t) ==
    IF kind = "" THEN ts ELSE Append(ts, [sub |-> s, kind |-> kind, at |-> t])

\* sendMessage, or a file chosen in the media panel:
\* addMessage(text, 'user'). The clock bound leaves room for its timer.
Submit(text) ==
    /\ page # "none"
    /\ Len(subs) < MaxSubs
    /\ now < MaxClock
    /\ (~hasMessagesEl(page) \/ currentChatId = NoChat) =>
            Len(glintChatList) < MaxChats
    /\ LET s == Len(subs) + 1
           r == addMessage(World, NewSub(text), s, page, malformed, now,
                           build, selectedLanguage)
       IN /\ Commit(r.w)
          /\ subs' = Append(subs, r.sub)
          /\ timers' = arm(timers, r.timer, s, now)
          /\ ev' = Event("submit", s, r.w)
    /\ UNCHANGED << build, themeVars, mediaVars, harnessVars, apiKeys, selectedLanguage, page, now,
                    malformed >>

\* Timers run in the order of their deadlines: a 1000 ms timer after every
\* timer armed before it, a 500 ms timer after every 500 ms timer armed
\* before it.
due(i) ==
    IF timers[i].kind = "retry"
    THEN \A j \in 1..(i - 1) : timers[j].kind # "retry"
    ELSE i = 1

dropTimer(i) ==
    [k \in 1..(Len(timers) - 1) |-> IF k < i THEN timers[k] ELSE timers[k + 1]]

\* The clock when a timer armed at t runs: later than t.
clockAfter(t) ==
    IF now > t THEN now ELSE t + 1

\* setTimeout(() => addMessage(text, type), 500) runs.
RetryFires(i) ==
    /\ timers[i].kind = "retry"
    /\ due(i)
    /\ clockAfter(timers[i].at) <= MaxClock
    /\ (~hasMessagesEl(page) \/ currentChatId = NoChat) =>
            Len(glintChatList) < MaxChats
    /\ LET s == timers[i].sub
           t == clockAfter(timers[i].at)
           r == addMessage(World, subs[s], s, page, malformed, t, build,
                           selectedLanguage)
       IN /\ Commit(r.w)
          /\ subs' = [subs EXCEPT ![s] = r.sub]
          /\ timers' = arm(dropTimer(i), r.timer, s, t)
          /\ ev' = Event("retry", s, r.w)
          /\ now' = t
    /\ UNCHANGED << build, themeVars, mediaVars, harnessVars, apiKeys, selectedLanguage, page,
                    malformed >>

\* The record of a call once its callback has run to its end under w,
\* having read the credential apiKey and the provider's answer resp.
resolved(sub, path, w, apiKey, resp) ==
    [sub EXCEPT !.stage = "done", !.path = path,
                !.outcome = IF w.caught THEN "threw" ELSE "returned",
                !.credential = apiKey, !.resp = resp,
                !.rank = 1 + Cardinality({s \in 1..Len(subs) : subs[s].stage = "done"})]

\* The 1000 ms callback of script.js's canned coding reply runs.
CannedFires(i) ==
    /\ timers[i].kind = "canned"
    /\ due(i)
    /\ clockAfter(timers[i].at) <= MaxClock
    /\ LET s == timers[i].sub
           w == showCanned(World, s, subs[s].canned, page)
       IN /\ Commit(w)
          /\ subs' = [subs EXCEPT ![s] = resolved(@, "canned", w,
                                    getApiKey(subs[s].apiType, apiKeys), "")]
          /\ ev' = Event("resolve", s, w)
    /\ timers' = dropTimer(i)
    /\ now' = clockAfter(timers[i].at)
    /\ UNCHANGED << build, themeVars, mediaVars, harnessVars, apiKeys, selectedLanguage, page,
                    malformed >>

\* The 1000 ms reply callback runs up to its first suspension: the demo
\* reply, a dispatch that throws before any fetch, or the fetch.
ReplyFires(i) ==
    /\ timers[i].kind = "reply"
    /\ due(i)
    /\ clockAfter(timers[i].at) <= MaxClock
    /\ LET s == timers[i].sub
           apiType == subs[s].apiType
           apiKey == getApiKey(apiType, apiKeys)
           r == makeApiCall(build, apiType, apiKeys, selectedLanguage)
           selectedLang == IF selectedLanguage = NoValue THEN "english"
                           ELSE selectedLanguage
       IN IF apiKey = NoValue
          THEN LET w == showReply(World, s, apiType,
                                  getDemoResponse(selectedLang, apiType, subs[s].text),
                                  build, page)
               IN /\ Commit(w)
                  /\ subs' = [subs EXCEPT ![s] = resolved(@, "demo", w, apiKey, "")]
                  /\ ev' = Event("resolve", s, w)
          ELSE IF r.kind = "throw"
          THEN LET w == showError(World, s, apiType, r.error, build, page)
               IN /\ Commit(w)
                  /\ subs' = [subs EXCEPT ![s] = resolved(@, "provider", w, apiKey, "")]
                  /\ ev' = Event("resolve", s, w)
          ELSE /\ UNCHANGED storeVars
               /\ subs' = [subs EXCEPT ![s].stage = "inflight",
                                       ![s].path = "provider",
                                       ![s].credential = apiKey,
                                       ![s].fetches = @ + 1]
               /\ ev' = Event("fetch", s, World)
    /\ timers' = dropTimer(i)
    /\ now' = clockAfter(timers[i].at)
    /\ UNCHANGED << build, themeVars, mediaVars, harnessVars, apiKeys, selectedLanguage, page,
                    malformed >>

\* The provider answers the fetch of call s and the callback runs on.
ProviderResponds(s, resp) ==
    /\ subs[s].stage = "inflight"
    /\ LET r == callApiResume(build, subs[s].apiType, resp)
           w == IF r.kind = "throw"
                THEN showError(World, s, subs[s].apiType, r.error, build, page)
                ELSE showReply(World, s, subs[s].apiType, r.value, build, page)
       IN /\ Commit(w)
          /\ subs' = [subs EXCEPT ![s] = resolved(@, "provider", w,
                                    subs[s].credential, resp)]
          /\ ev' = Event("resolve", s, w)
    /\ UNCHANGED << build, themeVars, mediaVars, harnessVars, apiKeys, selectedLanguage, page, now,
                    malformed, timers >>

\* The settings page (in this tab or another): a key saved or cleared.
SetCredential(type, v) ==
    /\ apiKeys[type] # v
    /\ apiKeys' = [apiKeys EXCEPT ![type] = v]
    /\ ev' = Did("setkey")
    /\ UNCHANGED << build, themeVars, mediaVars, harnessVars, selectedLanguage, page, now, storeVars,
                    malformed, subs, timers >>

\* The settings page: the save button of category type is clicked while
\* its input field holds input.
SaveApiKey(type, input) ==
    /\ page = "other"
    /\ apiKeys' = saveApiKey(apiKeys, type, input)
    /\ ev' = [Did("savekey") EXCEPT !.key = type, !.input = input]
    /\ UNCHANGED << build, themeVars, mediaVars, harnessVars, selectedLanguage, page, now, storeVars,
                    malformed, subs, timers >>

\* The language page: a language saved.
SetLanguage(l) ==
    /\ l # NoValue
    /\ selectedLanguage # l
    /\ selectedLanguage' = l
    /\ ev' = Did("setlang")
    /\ UNCHANGED << build, themeVars, mediaVars, harnessVars, apiKeys, page, now, storeVars,
                    malformed, subs, timers >>

----------------------------------------------------------------------------
(* The media functions called on their own. *)

\* savePhotoToStorage(imageData, fileName) is called.
SavePhoto ==
    /\ page # "none"
    /\ Len(saves) < MaxSaves
    /\ LET n == Len(saves) + 1
           r == savePhotoToStorage(currentChatId, glintMediaStorage, malformed, now, n)
       IN /\ glintMediaStorage' = r.media
          /\ saves' = Append(saves,
                [NewSave("photo") EXCEPT
                    !.stage = IF r.id = NoId THEN "null" ELSE "stored",
                    !.id = r.id,
                    !.chat = IF r.id = NoId THEN NoChat ELSE currentChatId])
          /\ ev' = [Did("savephoto") EXCEPT !.save = n]
    /\ UNCHANGED << build, themeVars, harnessVars, apiKeys, selectedLanguage, page, now,
                    storeVars, malformed, subs, timers >>

\* saveVoiceToStorage(audioBlob, fileName) is called: it rejects, or
\* starts the FileReader.
SaveVoice ==
    /\ page # "none"
    /\ Len(saves) < MaxSaves
    /\ saves' = Append(saves,
            [NewSave("voice") EXCEPT
                !.stage = IF currentChatId = NoChat THEN "rejected" ELSE "reading"])
    /\ ev' = [Did("savevoice") EXCEPT !.save = Len(saves) + 1]
    /\ UNCHANGED << build, themeVars, harnessVars, apiKeys, selectedLanguage, page, now,
                    storeVars, malformed, subs, timers, glintMediaStorage >>

\* The FileReader of save call n has finished: reader.onload runs.
ReaderLoads(n) ==
    /\ n \in reading
    /\ LET r == voiceOnload(currentChatId, glintMediaStorage, malformed, now, n)
       IN /\ glintMediaStorage' = r.media
          /\ saves' = [saves EXCEPT ![n] =
                [@ EXCEPT !.stage = IF r.id = NoId THEN "hung" ELSE "stored",
                          !.id = r.id,
                          !.chat = IF r.id = NoId THEN NoChat ELSE currentChatId,
                          !.pendingAtLoad = reading \ {n}]]
    /\ ev' = [Did("voiceloaded") EXCEPT !.save = n]
    /\ UNCHANGED << build, themeVars, harnessVars, apiKeys, selectedLanguage, page, now,
                    storeVars, malformed, subs, timers >>

\* The FileReader of save call n has failed: reader.onerror rejects.
ReaderFails(n) ==
    /\ n \in reading
    /\ saves' = [saves EXCEPT ![n].stage = "rejected"]
    /\ ev' = [Did("voicefailed") EXCEPT !.save = n]
    /\ UNCHANGED << build, themeVars, harnessVars, apiKeys, selectedLanguage, page, now,
                    storeVars, malformed, subs, timers, glintMediaStorage >>

\* getChatMedia() is called.
GetChatMedia ==
    /\ page # "none"
    /\ ev' = [Did("getmedia") EXCEPT
                !.media = getChatMedia(currentChatId, glintMediaStorage, malformed)]
    /\ UNCHANGED << build, themeVars, harnessVars, apiKeys, selectedLanguage, page, now,
                    storeVars, malformed, subs, timers, mediaVars >>

\* saveCurrentChat() is called.
SaveCurrentChatCall ==
    /\ page # "none"
    /\ Commit(saveCurrentChat(World, page))
    /\ ev' = Did("savechat")
    /\ UNCHANGED << build, themeVars, harnessVars, apiKeys, selectedLanguage, page, now,
                    malformed, subs, timers, mediaVars >>

----------------------------------------------------------------------------
(* The media handlers: capture, save of a recording. *)

\* The media handlers run at any clock value; a timer they arm when the
\* clock stands at MaxClock is not run within the bound.

\* The click handler of captureBtn (and reader.onload of photosInput):
\* savePhotoToStorage, then, when it returned an id, addMessage(text,
\* 'user') and displayMediaInChat(photoId, 'photo').
CapturePhoto ==
    /\ page # "none"
    /\ Len(saves) < MaxSaves
    /\ Len(subs) < MaxSubs
    /\ ~hasMessagesEl(page) => Len(glintChatList) < MaxChats
    /\ LET n == Len(saves) + 1
           s == Len(subs) + 1
           r == savePhotoToStorage(currentChatId, glintMediaStorage, malformed, now, n)
           a == addMessage(World, NewSub(PhotoCapturedText), s, page, malformed,
                           now, build, selectedLanguage)
           w == displayMediaInChat(a.w, r.media, malformed, r.id, page)
       IN /\ glintMediaStorage' = r.media
          /\ saves' = Append(saves,
                [NewSave("photo") EXCEPT
                    !.stage = IF r.id = NoId THEN "null" ELSE "stored",
                    !.id = r.id,
                    !.chat = IF r.id = NoId THEN NoChat ELSE currentChatId])
          /\ IF r.id = NoId
             THEN /\ UNCHANGED << storeVars, subs, timers >>
                  /\ ev' = [Did("capture") EXCEPT !.save = n]
             ELSE /\ Commit(w)
                  /\ subs' = Append(subs, a.sub)
                  /\ timers' = arm(timers, a.timer, s, now)
                  /\ ev' = [Event("capture", s, w) EXCEPT !.save = n]
    /\ UNCHANGED << build, themeVars, harnessVars, apiKeys, selectedLanguage, page, now,
                    malformed >>

\* The FileReader of save call n has finished: reader.onload runs and
\* resolves, and the click handler of saveRecordedBtn runs on:
\* addMessage(text, 'user'), displayMediaInChat(voiceId, 'voice').
SaveRecordedLoads(n) ==
    /\ n \in reading
    /\ Len(subs) < MaxSubs
    /\ ~hasMessagesEl(page) => Len(glintChatList) < MaxChats
    /\ LET s == Len(subs) + 1
           r == voiceOnload(currentChatId, glintMediaStorage, malformed, now, n)
           a == addMessage(World, NewSub(VoiceMessageText), s, page, malformed,
                           now, build, selectedLanguage)
           w == displayMediaInChat(a.w, r.media, malformed, r.id, page)
       IN /\ glintMediaStorage' = r.media
          /\ saves' = [saves EXCEPT ![n] =
                [@ EXCEPT !.stage = IF r.id = NoId THEN "hung" ELSE "stored",
                          !.id = r.id,
                          !.chat = IF r.id = NoId THEN NoChat ELSE currentChatId,
                          !.pendingAtLoad = reading \ {n}]]
          /\ IF r.id = NoId
             THEN /\ UNCHANGED << storeVars, subs, timers >>
                  /\ ev' = [Did("voicesaved") EXCEPT !.save = n]
             ELSE /\ Commit(w)
                  /\ subs' = Append(subs, a.sub)
                  /\ timers' = arm(timers, a.timer, s, now)
                  /\ ev' = [Event("voicesaved", s, w) EXCEPT !.save = n]
    /\ UNCHANGED << build, themeVars, harnessVars, apiKeys, selectedLanguage, page, now,
                    malformed >>

\* The save button of the voice panel is clicked: saveVoiceToStorage is
\* called and awaited. With no current chat it rejects at once and the
\* catch of the handler runs addMessage('Error saving voice message.',
\* 'bot'); else its FileReader starts.
SaveRecordedClick ==
    /\ page # "none"
    /\ Len(saves) < MaxSaves
    /\ LET n == Len(saves) + 1 IN
          IF currentChatId = NoChat
          THEN LET w == addBotMessage(World, <<"Error saving voice message.">>, page)
               IN /\ saves' = Append(saves, [NewSave("voice") EXCEPT !.stage = "rejected"])
                  /\ Commit(w)
                  /\ ev' = [Event("voicerejected", 0, w) EXCEPT !.save = n]
          ELSE /\ saves' = Append(saves, [NewSave("voice") EXCEPT !.stage = "reading"])
               /\ UNCHANGED storeVars
               /\ ev' = [Did("savevoice") EXCEPT !.save = n]
    /\ UNCHANGED << build, themeVars, harnessVars, apiKeys, selectedLanguage, page, now,
                    malformed, subs, timers, glintMediaStorage >>

\* The FileReader of save call n has failed: reader.onerror rejects and the
\* catch of the click handler runs addMessage('Error saving voice
\* message.', 'bot').
SaveRecordedFails(n) ==
    /\ n \in reading
    /\ saves' = [saves EXCEPT ![n].stage = "rejected"]
    /\ LET w == addBotMessage(World, <<"Error saving voice message.">>, page)
       IN /\ Commit(w)
          /\ ev' = [Event("voicerejected", 0, w) EXCEPT !.save = n]
    /\ UNCHANGED << build, themeVars, harnessVars, apiKeys, selectedLanguage, page, now,
                    malformed, subs, timers, glintMediaStorage >>

----------------------------------------------------------------------------
(* The theme script. *)

\* window.applyTheme(themeName) is called.
ApplyTheme(themeName) ==
    /\ page # "none"
    /\ theme' = applyTheme(themeName).theme
    /\ htmlClass' = applyTheme(themeName).htmlClass
    /\ ev' = [Did("applytheme") EXCEPT !.themeName = themeName]
    /\ UNCHANGED << build, mediaVars, harnessVars, apiKeys, selectedLanguage, page, now,
                    storeVars, malformed, subs, timers >>

\* The DOMContentLoaded listener of the theme script: initializeTheme().
InitializeTheme ==
    /\ page # "none"
    /\ theme' = initializeTheme(theme).theme
    /\ htmlClass' = initializeTheme(theme).htmlClass
    /\ ev' = Did("inittheme")
    /\ UNCHANGED << build, mediaVars, harnessVars, apiKeys, selectedLanguage, page, now,
                    storeVars, malformed, subs, timers >>

----------------------------------------------------------------------------
(* Harness actions: the classifier and the gateway called on their own. *)

RECURSIVE TextsOfAtMost(_)
\* Every concatenation of at most n fragments.
TextsOfAtMost(n) ==
    IF n = 0 THEN {<<>>}
    ELSE LET shorter == TextsOfAtMost(n - 1) IN
         shorter \cup {t \o f : t \in shorter, f \in Fragments}

Texts == TextsOfAtMost(MaxFragments)

sessionVars ==
    << page, now, storeVars, malformed, subs, timers >>

\* detectApiType(clsText) is called.
Classify ==
    /\ clsType = ""
    /\ clsType' = detectApiType(build, clsText)
    /\ ev' = Did("classify")
    /\ UNCHANGED << build, themeVars, mediaVars, clsText, apiKeys, selectedLanguage, call, demo,
                    sessionVars >>

\* getDemoResponse(language, apiType, clsText) is called.
Demo(language, apiType) ==
    /\ demo' = [language |-> language, apiType |-> apiType,
                userMessage |-> clsText,
                value |-> getDemoResponse(language, apiType, clsText)]
    /\ ev' = Did("demo")
    /\ UNCHANGED << build, themeVars, mediaVars, clsText, clsType, call, apiKeys, selectedLanguage,
                    sessionVars >>

\* makeApiCall(type, content) is called and runs to its first suspension;
\* apiKey is the value its getApiKey(type) read.
Dispatch(type) ==
    /\ call.phase # "awaiting"
    /\ LET r == makeApiCall(build, type, apiKeys, selectedLanguage) IN
       call' = [type |-> type, apiKey |-> getApiKey(type, apiKeys),
                phase |-> IF r.kind = "throw" THEN "failed" ELSE "awaiting",
                error |-> r.error, value |-> <<>>, endpoint |-> r.endpoint,
                fetches |-> IF r.kind = "fetch" THEN 1 ELSE 0]
    /\ ev' = Did("dispatch")
    /\ UNCHANGED << build, themeVars, mediaVars, clsText, clsType, demo, apiKeys, selectedLanguage,
                    sessionVars >>

\* The provider answers and makeApiCall settles.
DispatchSettles(resp) ==
    /\ call.phase = "awaiting"
    /\ LET r == callApiResume(build, call.type, resp) IN
       call' = [call EXCEPT !.phase = IF r.kind = "throw" THEN "failed" ELSE "returned",
                            !.error = r.error, !.value = r.value]
    /\ ev' = Did("settle")
    /\ UNCHANGED << build, themeVars, mediaVars, clsText, clsType, demo, apiKeys, selectedLanguage,
                    sessionVars >>

----------------------------------------------------------------------------
(* Environment faults: what reaches localStorage from outside the script. *)

\* The chat registry is overwritten with text that is not JSON.
CorruptChatList ==
    /\ "glintChatList" \notin malformed
    /\ malformed' = malformed \cup {"glintChatList"}
    /\ glintChatList' = <<>>
    /\ ev' = Did("corrupt")
    /\ UNCHANGED << build, themeVars, mediaVars, harnessVars, apiKeys, selectedLanguage, page, now,
                    currentChatId, navTo, messagesEl, messagesHtml, subs, timers >>

\* The media index is overwritten with text that is not JSON.
CorruptMediaIndex ==
    /\ "glintMediaStorage" \notin malformed
    /\ malformed' = malformed \cup {"glintMediaStorage"}
    /\ glintMediaStorage' = [c \in MediaChats |-> <<>>]
    /\ ev' = Did("corruptmedia")
    /\ UNCHANGED << build, themeVars, saves, harnessVars, apiKeys, selectedLanguage, page,
                    now, storeVars, subs, timers >>

\* The site data is cleared (localStorage.clear()) while the page is open.
ClearStorage ==
    /\ malformed # {}
    /\ malformed' = {}
    /\ glintChatList' = <<>>
    /\ messagesHtml' = [c \in ChatIds |-> <<>>]
    /\ apiKeys' = [c \in Categories |-> NoValue]
    /\ selectedLanguage' = NoValue
    /\ glintMediaStorage' = [c \in MediaChats |-> <<>>]
    /\ theme' = NoValue
    /\ ev' = Did("clear")
    /\ UNCHANGED << build, htmlClass, saves, harnessVars, page, now, currentChatId, navTo,
                    messagesEl, subs, timers >>

----------------------------------------------------------------------------
(* Specifications. *)

InitPage ==
    /\ selectedLanguage = NoValue
    /\ page = "none"
    /\ now = 0
    /\ currentChatId = NoChat
    /\ navTo = NoChat
    /\ glintChatList = <<>>
    /\ malformed = {}
    /\ messagesEl = <<>>
    /\ messagesHtml = [c \in ChatIds |-> <<>>]
    /\ subs = <<>>
    /\ timers = <<>>
    /\ glintMediaStorage = [c \in MediaChats |-> <<>>]
    /\ saves = <<>>
    /\ theme = NoValue
    /\ htmlClass = ""
    /\ ev = NoEvent

InitStore ==
    /\ apiKeys = [c \in Categories |-> NoValue]
    /\ InitPage

\* The session in one tab: empty localStorage, no page loaded yet; the
\* language page is not visited.
Init ==
    /\ build \in Builds
    /\ clsText = <<>>
    /\ clsType = ""
    /\ call = IdleCall
    /\ demo = IdleDemo
    /\ InitStore

Next ==
    \/ Tick
    \/ \E kind \in {"chat", "other"}, id \in ChatIds \cup {NoChat} : PageLoad(kind, id)
    \/ NewChatClick
    \/ \E text \in SubmitTexts : Submit(text)
    \/ \E i \in 1..Len(timers) : RetryFires(i)
    \/ \E i \in 1..Len(timers) : CannedFires(i)
    \/ \E i \in 1..Len(timers) : ReplyFires(i)
    \/ \E s \in 1..Len(subs), resp \in Responses : ProviderResponds(s, resp)
    \/ \E type \in SessionCategories, v \in KeyValues : SetCredential(type, v)

Spec == Init /\ [][Next]_vars

\* The session when timers fire and every fetch settles: a due timer
\* callback is run, a pending fetch is answered.
Fairness ==
    /\ WF_vars(\E i \in 1..Len(timers) : ReplyFires(i))
    /\ WF_vars(\E i \in 1..Len(timers) : CannedFires(i))
    /\ WF_vars(\E s \in 1..Len(subs), resp \in Responses : ProviderResponds(s, resp))

\* The credentials are those the settings page stored before the session.
InitLive ==
    /\ build \in Builds
    /\ clsText = <<>>
    /\ clsType = ""
    /\ call = IdleCall
    /\ demo = IdleDemo
    /\ apiKeys \in {keys \in [Categories -> KeyValues] : keys["image"] = NoValue}
    /\ InitPage

NextLive ==
    \/ Tick
    \/ \E kind \in {"chat", "other"}, id \in ChatIds \cup {NoChat} : PageLoad(kind, id)
    \/ \E text \in SubmitTexts : Submit(text)
    \/ \E i \in 1..Len(timers) : RetryFires(i)
    \/ \E i \in 1..Len(timers) : CannedFires(i)
    \/ \E i \in 1..Len(timers) : ReplyFires(i)
    \/ \E s \in 1..Len(subs), resp \in Responses : ProviderResponds(s, resp)

SpecLive == InitLive /\ [][NextLive]_vars /\ Fairness

\* The session with the faults of the environment; no credential is
\* stored, every reply is the demo or the canned one.
NextFault ==
    \/ Tick
    \/ \E kind \in {"chat", "other"}, id \in ChatIds \cup {NoChat} : PageLoad(kind, id)
    \/ NewChatClick
    \/ \E text \in SubmitTexts : Submit(text)
    \/ \E i \in 1..Len(timers) : RetryFires(i)
    \/ \E i \in 1..Len(timers) : CannedFires(i)
    \/ \E i \in 1..Len(timers) : ReplyFires(i)
    \/ CorruptChatList
    \/ ClearStorage

SpecFault == Init /\ [][NextFault]_vars

\* The media store: pages loaded, photos and voice recordings saved, the
\* index read, corrupted and cleared.
NextMedia ==
    \/ Tick
    \/ \E kind \in {"chat", "other"}, id \in ChatIds \cup {NoChat} : PageLoad(kind, id)
    \/ SavePhoto
    \/ SaveVoice
    \/ \E n \in 1..Len(saves) : ReaderLoads(n)
    \/ \E n \in 1..Len(saves) : ReaderFails(n)
    \/ GetChatMedia
    \/ SaveCurrentChatCall
    \/ CorruptMediaIndex
    \/ ClearStorage

SpecMedia == Init /\ [][NextMedia]_vars

\* The chat page and the media handlers together, localStorage left alone
\* by everything but the script; no credential is stored.
NextStore ==
    \/ Tick
    \/ \E kind \in {"chat", "other"}, id \in ChatIds \cup {NoChat} : PageLoad(kind, id)
    \/ NewChatClick
    \/ \E text \in SubmitTexts : Submit(text)
    \/ \E i \in 1..Len(timers) : RetryFires(i)
    \/ \E i \in 1..Len(timers) : CannedFires(i)
    \/ \E i \in 1..Len(timers) : ReplyFires(i)
    \/ CapturePhoto
    \/ SaveRecordedClick
    \/ \E n \in 1..Len(saves) : SaveRecordedLoads(n)
    \/ \E n \in 1..Len(saves) : SaveRecordedFails(n)
    \/ GetChatMedia

SpecStore == Init /\ [][NextStore]_vars

\* The settings page, visited while localStorage holds chats and media.
NextSettings ==
    \/ \E kind \in {"chat", "other"}, id \in ChatIds \cup {NoChat} : PageLoad(kind, id)
    \/ CapturePhoto
    \/ \E type \in Categories, input \in SettingsInputs : SaveApiKey(type, input)

SpecSettings == Init /\ [][NextSettings]_vars

\* The theme script on the pages of the site; localStorage theme holds
\* any of StoredThemes when the session starts.
InitTheme ==
    /\ build \in Builds
    /\ clsText = <<>>
    /\ clsType = ""
    /\ call = IdleCall
    /\ demo = IdleDemo
    /\ apiKeys = [c \in Categories |-> NoValue]
    /\ selectedLanguage = NoValue
    /\ page = "none"
    /\ now = 0
    /\ currentChatId = NoChat
    /\ navTo = NoChat
    /\ glintChatList = <<>>
    /\ malformed = {}
    /\ messagesEl = <<>>
    /\ messagesHtml = [c \in ChatIds |-> <<>>]
    /\ subs = <<>>
    /\ timers = <<>>
    /\ glintMediaStorage = [c \in MediaChats |-> <<>>]
    /\ saves = <<>>
    /\ theme \in StoredThemes
    /\ htmlClass = ""
    /\ ev = NoEvent

NextTheme ==
    \/ \E kind \in {"chat", "other"}, id \in ChatIds \cup {NoChat} : PageLoad(kind, id)
    \/ \E themeName \in StoredThemes : ApplyTheme(themeName)
    \/ InitializeTheme

SpecTheme == InitTheme /\ [][NextTheme]_vars

\* The classifier on its own: every text of the bounded set, both builds.
InitClassify ==
    /\ build \in Builds
    /\ clsText \in Texts
    /\ clsType = ""
    /\ call = IdleCall
    /\ demo = IdleDemo
    /\ InitStore

NextClassify == Classify

SpecClassify == InitClassify /\ [][NextClassify]_vars

\* The demo responder on its own: every text of the bounded set, every
\* category, the languages of DemoLanguages.
NextDemo ==
    \E language \in DemoLanguages, apiType \in Categories : Demo(language, apiType)

SpecDemo == InitClassify /\ [][NextDemo]_vars

\* The gateway on its own: any credentials, any language, both builds.
NextDispatch ==
    \/ \E type \in Categories, v \in KeyValues : SetCredential(type, v)
    \/ \E l \in StoredLanguages : SetLanguage(l)
    \/ \E type \in Categories : Dispatch(type)
    \/ \E resp \in Responses : DispatchSettles(resp)

SpecDispatch == Init /\ [][NextDispatch]_vars

\* The texts submitted in the coding-reply model: an image text and a
\* voice text that hold a keyword of handleCodingRequest ("draw fix",
\* "speakfix"), that keyword alone, a coding text that holds none
\* ("Syntax"), and an image text that holds none.
CodingTexts ==
    { <<"d","r","a","w">> \o <<"f","i","x">>,
      <<"s","p","e","a","k">> \o <<"f","i","x">>,
      <<"f","i","x">>,
      <<"S","y","n","t","a","x">>,
      <<"d","r","a","w">> }

\* The chat page with any credentials stored before the session.
InitCoding ==
    /\ build \in Builds
    /\ clsText = <<>>
    /\ clsType = ""
    /\ call = IdleCall
    /\ demo = IdleDemo
    /\ apiKeys \in [Categories -> KeyValues]
    /\ InitPage

NextCoding ==
    \/ PageLoad("chat", NoChat)
    \/ \E text \in CodingTexts : Submit(text)
    \/ \E i \in 1..Len(timers) : CannedFires(i)
    \/ \E i \in 1..Len(timers) : ReplyFires(i)
    \/ \E s \in 1..Len(subs), resp \in Responses : ProviderResponds(s, resp)

SpecCoding == InitCoding /\ [][NextCoding]_vars

\* The session when the first page visited is not the chat page: that
\* page is loaded, localStorage is empty, no chat is current.
InitDrawer ==
    /\ build \in Builds
    /\ clsText = <<>>
    /\ clsType = ""
    /\ call = IdleCall
    /\ demo = IdleDemo
    /\ apiKeys = [c \in Categories |-> NoValue]
    /\ selectedLanguage = NoValue
    /\ page = "other"
    /\ now = 0
    /\ currentChatId = NoChat
    /\ navTo = NoChat
    /\ glintChatList = <<>>
    /\ malformed = {}
    /\ messagesEl = <<>>
    /\ messagesHtml = [c \in ChatIds |-> <<>>]
    /\ subs = <<>>
    /\ timers = <<>>
    /\ glintMediaStorage = [c \in MediaChats |-> <<>>]
    /\ saves = <<>>
    /\ theme = NoValue
    /\ htmlClass = ""
    /\ ev = NoEvent

NextDrawer ==
    \/ Tick
    \/ \E kind \in {"chat", "other"}, id \in ChatIds \cup {NoChat} : PageLoad(kind, id)
    \/ NewChatClick
    \/ \E text \in SubmitTexts : Submit(text)
    \/ \E i \in 1..Len(timers) : RetryFires(i)
    \/ \E i \in 1..Len(timers) : CannedFires(i)
    \/ \E i \in 1..Len(timers) : ReplyFires(i)

SpecDrawer == InitDrawer /\ [][NextDrawer]_vars

----------------------------------------------------------------------------
(* Properties of the classifier (SpecClassify). *)

\* keyword k occurs in text at some offset, letter case ignored.
occursIgnoringCase(k, text) ==
    \E off \in 0..Len(text) :
        /\ off + Len(k) <= Len(text)
        /\ \A j \in 1..Len(k) : toLowerChar(text[off + j]) = toLowerChar(k[j])

\* Some keyword of the list occurs in text.
matchesSet(list, text) ==
    \E n \in DOMAIN list : occursIgnoringCase(list[n], text)

\* C1: detectApiType returns the category of the first keyword set, in the
\* order image, voice, coding, one of whose keywords occurs in the text as
\* a case-insensitive substring, and text when no set matches; an image
\* keyword wins over a voice or a coding keyword in the same text.
C1_FirstMatchingCategory ==
    clsType # "" =>
        /\ matchesSet(imageKeywords, clsText) => clsType = "image"
        /\ (~matchesSet(imageKeywords, clsText)
            /\ matchesSet(voiceKeywords(build), clsText)) => clsType = "voice"
        /\ (~matchesSet(imageKeywords, clsText)
            /\ ~matchesSet(voiceKeywords(build), clsText)
            /\ matchesSet(codingKeywords, clsText)) => clsType = "coding"
        /\ (~matchesSet(imageKeywords, clsText)
            /\ ~matchesSet(voiceKeywords(build), clsText)
            /\ ~matchesSet(codingKeywords, clsText)) => clsType = "text"

\* A text with a capitalised image keyword and a coding keyword has been
\* classified image.
C1_Witness ==
    /\ clsType = "image"
    /\ occursIgnoringCase(<<"p","h","o","t","o">>, clsText)
    /\ ~includes(clsText, <<"p","h","o","t","o">>)
    /\ matchesSet(codingKeywords, clsText)
    /\ ~matchesSet(voiceKeywords(build), clsText)

----------------------------------------------------------------------------
(* Properties of the gateway (SpecDispatch). *)

\* C2: makeApiCall for any of the four categories, called while no
\* credential is stored for the category, fails with the "API key not
\* configured" error and calls fetch zero times.
C2_NoCredentialNoNetwork ==
    (call.type \in Categories /\ call.apiKey = NoValue) =>
        /\ call.phase = "failed"
        /\ IsConfigurationError(call.error)
        /\ call.fetches = 0
        /\ call.endpoint = ""

\* The image provider was dispatched to without a credential while the
\* credentials of other categories were stored.
C2_Witness ==
    /\ call.type = "image"
    /\ call.apiKey = NoValue
    /\ call.phase = "failed"
    /\ apiKeys["text"] # NoValue

\* C3 as stated: voice dispatched with no voice credential fails with the
\* transport-unsupported error, whose message is not empty.
C3_VoiceNoCredentialTransportError ==
    (call.type = "voice" /\ call.apiKey = NoValue) =>
        /\ call.phase = "failed"
        /\ IsTransportUnsupportedError(call.error)
        /\ call.error.tag # ""

\* C3 as the code has it: voice dispatched with no voice credential fails
\* with the configuration error of every other category (a non-empty
\* message), not with the transport-unsupported error, and without a
\* network call: the key check runs before callVoiceApi is reached.
C3_VoiceNoCredentialConfigurationError ==
    (call.type = "voice" /\ call.apiKey = NoValue) =>
        /\ call.phase = "failed"
        /\ IsConfigurationError(call.error)
        /\ ~IsTransportUnsupportedError(call.error)
        /\ call.error.tag # ""
        /\ call.fetches = 0

\* Voice was dispatched to with no voice credential stored.
C3_Witness ==
    /\ call.type = "voice"
    /\ call.apiKey = NoValue
    /\ call.phase = "failed"
    /\ apiKeys["voice"] = NoValue

\* C4: voice dispatched with a voice credential always fails with the
\* transport-unsupported error, the message that of the stored language,
\* and never reaches the network or returns a reply.
C4_VoiceAlwaysTransportError ==
    (call.type = "voice" /\ call.apiKey # NoValue) =>
        /\ call.phase = "failed"
        /\ IsTransportUnsupportedError(call.error)
        /\ call.fetches = 0

----------------------------------------------------------------------------
(* Properties of the session (Spec). *)

\* The addMessage calls whose user bubble was put into the view.
accepted ==
    {s \in 1..Len(subs) : subs[s].chat # NoChat}

\* The children of view with className cls made for call s.
bubblesOf(view, s, classes) ==
    {k \in 1..Len(view) : view[k].sub = s /\ view[k].cls \in classes}

\* C5: the registry never holds two chats with the same id: startNewChat
\* yields an id the registry does not hold, also when called twice within
\* one millisecond.
C5_NoDuplicateIds ==
    \A i, j \in 1..Len(glintChatList) :
        i # j => glintChatList[i].id # glintChatList[j].id

\* C6: a handler that ran startNewChat leaves the persisted registry equal
\* to the new chat followed by the registry as it was: new chat at the
\* head, earlier entries unchanged and in their order.
C6_CreateChatPrepends ==
    [][ev'.created # <<>> =>
          /\ Len(ev'.created) = 1
          /\ glintChatList' # <<>>
          /\ glintChatList'[1].id = ev'.created[1]
          /\ Tail(glintChatList') = glintChatList]_vars

\* startNewChat has just run on a registry that held a chat of another id.
C6_Witness ==
    /\ Len(ev.created) = 1
    /\ Len(glintChatList) >= 2
    /\ glintChatList[1].id = ev.created[1]
    /\ glintChatList[2].id # ev.created[1]

\* C7: once the user bubble of a message is appended to chat c, the
\* history stored for c (what loadChat(c) shows after a reload) contains
\* it, also while the reply is pending.
C7_AppendedEntryIsStored ==
    \A s \in accepted :
        bubblesOf(parseHTML(messagesHtml[subs[s].chat]), s, {"user"}) # {}

\* C8: a message submitted with no usable chat is accepted once the
\* recovery has created a chat and retried: after the retry its user
\* bubble exists, and it is never dropped.
C8_RetryAcceptsMessage ==
    \A s \in 1..Len(subs) :
        /\ subs[s].stage # "dropped"
        /\ subs[s].tries >= 2 => s \in accepted

\* C9: the recovery of one message creates one chat and retries once.
C9_RecoversOnce ==
    \A s \in 1..Len(subs) :
        /\ subs[s].recovered <= 1
        /\ subs[s].tries <= 2

\* C10: when the reply callback of a message has run to its end, the view
\* holds no loading bubble of the message and exactly one reply bubble for
\* it: class "bot" when the try block returned, "bot error" when it threw;
\* and the stored history of the current chat is the view.
C10_ResolutionReplacesPlaceholder ==
    /\ \A s \in 1..Len(subs) :
          Cardinality(bubblesOf(messagesEl, s, {"bot", "bot error"})) <= 1
    /\ ev.op = "resolve" =>
          LET s == ev.sub IN
          /\ subs[s].stage = "done"
          /\ bubblesOf(messagesEl, s, {"bot loading-message"}) = {}
          /\ Cardinality(bubblesOf(messagesEl, s, {"bot", "bot error"})) = 1
          /\ subs[s].outcome = "returned" => bubblesOf(messagesEl, s, {"bot"}) # {}
          /\ subs[s].outcome = "threw" => bubblesOf(messagesEl, s, {"bot error"}) # {}
          /\ currentChatId # NoChat
          /\ messagesHtml[currentChatId] = innerHTML(messagesEl)
          /\ bubblesOf(messagesHtml[currentChatId], s, {"bot", "bot error"}) # {}

\* A provider failure has just been shown for a message whose loading
\* bubble was in the view, after an earlier message of the chat resolved.
C10_Witness ==
    /\ ev.op = "resolve"
    /\ build = "part_000"
    /\ subs[ev.sub].outcome = "threw"
    /\ subs[ev.sub].path = "provider"
    /\ \E s \in 1..Len(subs) : s # ev.sub /\ subs[s].stage = "done"
                               /\ subs[s].chat = subs[ev.sub].chat

----------------------------------------------------------------------------
(* Properties of the reply path (Spec). *)

\* The calls whose callback has run to its end.
settled ==
    {s \in 1..Len(subs) : subs[s].stage = "done"}

\* The reply bubbles ("bot" or "bot error") of call s in a history.
repliesOf(view, s) ==
    bubblesOf(view, s, {"bot", "bot error"})

\* The dispatch of call s did not produce a reply text: makeApiCall threw
\* before any fetch, the fetch was rejected, the provider answered with a
\* non-success status, or the body was not the JSON the call expects.
dispatchFailed(s) ==
    /\ subs[s].path = "provider"
    /\ subs[s].resp \in {"", "neterr", "http401", "badjson", "emptyobj", "noleaf"}

\* C11: every failed dispatch ends as an error bubble of the message in the
\* history of its chat and never as a normal bot bubble.
C11_FailureBecomesErrorEntry ==
    \A s \in settled :
        dispatchFailed(s) =>
            /\ bubblesOf(messagesHtml[subs[s].chat], s, {"bot error"}) # {}
            /\ bubblesOf(messagesHtml[subs[s].chat], s, {"bot"}) = {}

\* C13: a message whose category had no credential when its callback ran
\* is answered by getDemoResponse, with no fetch and no error bubble.
C13_NoCredentialMeansDemo ==
    \A s \in settled :
        subs[s].credential = NoValue =>
            /\ subs[s].path = "demo"
            /\ subs[s].fetches = 0
            /\ bubblesOf(messagesHtml[subs[s].chat], s, {"bot error"}) = {}

\* C14: a text, image or coding message whose category had a credential
\* when its callback ran made exactly one fetch.
C14_CredentialMeansOneCall ==
    \A s \in settled :
        (subs[s].apiType \in {"text", "image", "coding"}
         /\ subs[s].credential # NoValue) => subs[s].fetches = 1

\* C15: messages are accepted while earlier ones await their reply, and the
\* reply bubbles of a history stand in the order in which the callbacks
\* ended (newest first), whatever the order of submission.
C15_RepliesInCompletionOrder ==
    \A c \in ChatIds :
        \A k1, k2 \in 1..Len(messagesHtml[c]) :
            LET b1 == messagesHtml[c][k1]
                b2 == messagesHtml[c][k2]
            IN (k1 < k2 /\ b1.cls \in {"bot", "bot error"}
                /\ b2.cls \in {"bot", "bot error"}) =>
                   /\ b1.sub \in settled
                   /\ b2.sub \in settled
                   /\ subs[b1.sub].rank > subs[b2.sub].rank

\* The second message of a chat was answered before the first: its reply
\* bubble stands below the first message's.
C15_Witness ==
    /\ Len(subs) = 2
    /\ subs[1].chat = subs[2].chat
    /\ subs[1].rank = 2
    /\ subs[2].rank = 1
    /\ \E k1, k2 \in 1..Len(messagesEl) :
          /\ k1 < k2
          /\ k1 \in repliesOf(messagesEl, 1)
          /\ k2 \in repliesOf(messagesEl, 2)

\* C16: a reply or error bubble of a message is stored in the history of
\* the chat that was current when the message was accepted and in no other
\* history, also when a chat was created in between.
C16_ReplyStoredInOwnChat ==
    /\ \A c \in ChatIds : \A s \in 1..Len(subs) :
          repliesOf(messagesHtml[c], s) # {} => subs[s].chat = c
    /\ ev.op = "resolve" =>
          repliesOf(messagesHtml[subs[ev.sub].chat], ev.sub) # {}

\* A callback has just ended after New Chat registered another chat.
C16_Witness ==
    /\ ev.op = "resolve"
    /\ navTo # NoChat
    /\ navTo # subs[ev.sub].chat
    /\ glintChatList[1].id = navTo
    /\ repliesOf(messagesHtml[navTo], ev.sub) = {}

----------------------------------------------------------------------------
(* Properties under storage faults (SpecFault). *)

\* C12: with a chat registry that is not valid JSON every operation reading
\* it completes as if it were empty: startNewChat and loadChat do not
\* throw, and a load of the chat page leaves a chat current.
C12_CorruptionTreatedAsEmpty ==
    /\ ~ev.threw
    /\ (ev.op = "load" /\ page = "chat") => currentChatId # NoChat

----------------------------------------------------------------------------
(* Properties of the media store (SpecMedia). *)

\* The save calls that returned or resolved an id.
stored ==
    {n \in 1..Len(saves) : saves[n].stage = "stored"}

\* The index holds the entry of save call n under chat c.
holds(c, n) ==
    \E k \in 1..Len(glintMediaStorage[c]) : glintMediaStorage[c][k].save = n

\* The FileReaders of two voice saves ran at the same time.
overlapped(n1, n2) ==
    n2 \in saves[n1].pendingAtLoad \/ n1 \in saves[n2].pendingAtLoad

C18_MediaIdsUnique ==
    \A c \in MediaChats :
        /\ \A i, j \in 1..Len(glintMediaStorage[c]) :
              i # j => glintMediaStorage[c][i].id # glintMediaStorage[c][j].id
        /\ \A n \in stored :
              holds(c, n) =>
                 /\ findMedia(glintMediaStorage[c], saves[n].id) # <<>>
                 /\ findMedia(glintMediaStorage[c], saves[n].id)[1].save = n

\* C19: called while currentChatId is null, savePhotoToStorage returns
\* null, saveVoiceToStorage rejects, getChatMedia returns an empty list
\* and saveCurrentChat returns; none of them changes a stored value.
C19_NoActiveChatNoWrite ==
    [][(currentChatId = NoChat
        /\ ev'.op \in {"savephoto", "savevoice", "getmedia", "savechat"}) =>
          /\ glintMediaStorage' = glintMediaStorage
          /\ messagesHtml' = messagesHtml
          /\ glintChatList' = glintChatList
          /\ ev'.op = "savephoto" => saves'[ev'.save].stage = "null"
          /\ ev'.op = "savevoice" => saves'[ev'.save].stage = "rejected"
          /\ ev'.op = "getmedia" => ev'.media = <<>>]_vars

\* A photo save has just returned null on a page with no current chat
\* while the index held media of a chat.
C19_Witness ==
    /\ currentChatId = NoChat
    /\ ev.op = "savephoto"
    /\ saves[ev.save].stage = "null"
    /\ malformed = {}
    /\ \E c \in ChatIds : glintMediaStorage[c] # <<>>

----------------------------------------------------------------------------
(* Progress of the reply path (SpecLive). *)

\* Call s awaits its reply: its 1000 ms timer or its fetch is pending.
awaitingReply(s) ==
    s <= Len(subs) /\ subs[s].stage \in {"timer", "inflight"}

\* Call s has its reply or error bubble stored, or its page was left.
replied(s) ==
    /\ s <= Len(subs)
    /\ \/ subs[s].stage = "abandoned"
       \/ /\ subs[s].stage = "done"
          /\ repliesOf(messagesHtml[subs[s].chat], s) # {}

----------------------------------------------------------------------------
(* The order of the bubbles of one message (Spec). *)

\* The handler that has just run put the user bubble of call s in the view.
acceptedNow(s) ==
    /\ ev'.op \in {"submit", "retry"}
    /\ ev'.sub = s
    /\ s \notin accepted
    /\ s \in accepted'

\* C21: the handler that accepts a message leaves the view with the
\* message's loading bubble on top of its user bubble on top of the view as
\* it was, and with no reply bubble of the message; a reply or error bubble
\* of a message enters the view only in a later step, the run of its
\* callback, while its user bubble and its loading bubble are in the view;
\* and every reply bubble in the view has its user bubble below it.
C21_SubmitShowsEntryAndPlaceholder ==
    /\ [][\A s \in 1..Len(subs') :
            /\ acceptedNow(s) =>
                  /\ Len(messagesEl') = Len(messagesEl) + 2
                  /\ messagesEl'[1].cls = "bot loading-message"
                  /\ messagesEl'[1].sub = s
                  /\ messagesEl'[2].cls = "user"
                  /\ messagesEl'[2].sub = s
                  /\ SubSeq(messagesEl', 3, Len(messagesEl')) = messagesEl
                  /\ repliesOf(messagesEl', s) = {}
            /\ (repliesOf(messagesEl', s) # {} /\ repliesOf(messagesEl, s) = {}
                /\ ev'.op # "load") =>
                  /\ ev'.op = "resolve"
                  /\ ev'.sub = s
                  /\ s \in accepted
                  /\ bubblesOf(messagesEl, s, {"user"}) # {}
                  /\ bubblesOf(messagesEl, s, {"bot loading-message"}) # {}]_vars
    /\ [](\A s \in 1..Len(subs) :
            \A k \in repliesOf(messagesEl, s) :
                \E u \in bubblesOf(messagesEl, s, {"user"}) : u > k)

----------------------------------------------------------------------------
(* loadChat (Spec). *)

\* Chat c is in the registry.
registered(list, c) ==
    \E i \in 1..Len(list) : list[i].id = c

\* C22: a handler that called loadChat(id) while no history was stored for
\* id ends without an exception and with id as the current chat, whether
\* or not the registry holds id; on the chat page the view is then empty;
\* and loadChat leaves the registry as it was (the registry of a handler
\* that ran no startNewChat is unchanged).
C22_LoadOfEmptyChatSucceeds ==
    [][(ev'.loaded # NoChat /\ messagesHtml[ev'.loaded] = <<>>) =>
          /\ ~ev'.threw
          /\ currentChatId' = ev'.loaded
          /\ hasMessagesEl(page') => messagesEl' = <<>>
          /\ messagesHtml' = messagesHtml
          /\ ev'.created = <<>> => glintChatList' = glintChatList]_vars

\* The chat page was loaded for an id the registry does not hold and that
\* has no stored history, while the registry held another chat.
C22_Witness ==
    /\ ev.op = "load"
    /\ ev.created = <<>>
    /\ ev.loaded # NoChat
    /\ ~registered(glintChatList, ev.loaded)
    /\ glintChatList # <<>>
    /\ messagesHtml[ev.loaded] = <<>>
    /\ currentChatId = ev.loaded
    /\ messagesEl = <<>>

----------------------------------------------------------------------------
(* The media lists and the registry over time (SpecStore). *)

\* The save calls that stored their asset while chat c was current.
savedIn(c) ==
    {n \in stored : saves[n].chat = c}

\* C23: what getChatMedia returns for the current chat is the list stored
\* for it, which holds one entry for each asset saved while that chat was
\* current and no other entry, each marked with that chat; and a list
\* changes only by the asset just saved being appended to the list of the
\* current chat, so the entries stand in the order they were saved.
C23_ListIsWhatWasSaved ==
    /\ [](ev.op = "getmedia" /\ currentChatId # NoChat =>
            /\ ev.media = glintMediaStorage[currentChatId]
            /\ {ev.media[k].save : k \in 1..Len(ev.media)} = savedIn(currentChatId)
            /\ Len(ev.media) = Cardinality(savedIn(currentChatId))
            /\ \A k \in 1..Len(ev.media) : ev.media[k].chatId = currentChatId)
    /\ [][\A c \in MediaChats :
            glintMediaStorage'[c] # glintMediaStorage[c] =>
                /\ c = currentChatId
                /\ ev'.save \in stored' \ stored
                /\ glintMediaStorage'[c] =
                      Append(glintMediaStorage[c],
                             mediaItem(saves'[ev'.save].id, c, ev'.save))]_vars

\* getChatMedia has just returned two assets, the recording whose save was
\* called first after the photo captured while it was encoded.
C23_Witness ==
    /\ ev.op = "getmedia"
    /\ Len(ev.media) = 2
    /\ ev.media[1].save = 2
    /\ ev.media[1].type = "photo"
    /\ ev.media[2].save = 1
    /\ ev.media[2].type = "voice"

\* Sequence a is the beginning of sequence b.
isPrefix(a, b) ==
    /\ Len(a) <= Len(b)
    /\ SubSeq(b, 1, Len(a)) = a

\* Sequence a is the end of sequence b.
isSuffix(a, b) ==
    /\ Len(a) <= Len(b)
    /\ SubSeq(b, Len(b) - Len(a) + 1, Len(b)) = a

\* C24: no step of the script removes or reorders a registered chat or a
\* stored asset: the registry before a step is the end of the registry
\* after it, and the media list of every chat before a step is the
\* beginning of its list after it.
C24_RegistryAndMediaOnlyGrow ==
    [][/\ isSuffix(glintChatList, glintChatList')
       /\ \A c \in MediaChats :
             isPrefix(glintMediaStorage[c], glintMediaStorage'[c])]_vars

\* A chat has just been registered in front of an older one while one
\* chat's media list held two assets.
C24_Witness ==
    /\ ev.created # <<>>
    /\ Len(glintChatList) = 2
    /\ glintChatList[1].id = ev.created[1]
    /\ \E c \in ChatIds : Len(glintMediaStorage[c]) = 2

----------------------------------------------------------------------------
(* The stored histories over time (SpecStore). *)

\* The bubble is a message entry: anything but a loading placeholder.
isEntry(b) ==
    b.cls # "bot loading-message"

\* The message entries of a history, newest first.
entriesOf(h) ==
    SelectSeq(h, isEntry)

\* C25: the message entries of the stored history of a chat are never
\* altered, removed or reordered: the entries stored before a step are the
\* oldest entries stored after it, unchanged and in the same order.
C25_StoredEntriesStay ==
    [][\A c \in ChatIds :
          isSuffix(entriesOf(messagesHtml[c]), entriesOf(messagesHtml'[c]))]_vars

\* A history that was stored, then loaded again on a later page, has just
\* been stored with a new asset's bubble on top of the older entries.
C25_Witness ==
    /\ ev.op = "capture"
    /\ ev.save = 2
    /\ currentChatId # NoChat
    /\ subs[1].stage = "abandoned"
    /\ subs[1].chat = currentChatId
    /\ bubblesOf(messagesHtml[currentChatId], 1, {"user"}) # {}
    /\ bubblesOf(messagesHtml[currentChatId], 2, {"user"}) # {}
    /\ Len(entriesOf(messagesHtml[currentChatId])) = 4

----------------------------------------------------------------------------
(* Properties of the demo responder (SpecDemo). *)

\* C26: called with a language other than roman-urdu, urdu and english,
\* getDemoResponse returns the English template of the category; called
\* with one of the three it returns the template of that language; and the
\* call changes nothing the script keeps.
C26_DemoFallsBackToEnglish ==
    /\ [](demo.apiType # "" =>
            demo.value =
                demoTemplate(IF demo.language \in Languages THEN demo.language
                             ELSE "english",
                             demo.apiType, demo.userMessage))
    /\ [][ev'.op = "demo" =>
            UNCHANGED << apiKeys, selectedLanguage, sessionVars, mediaVars >>]_vars

----------------------------------------------------------------------------
(* Properties of the settings page (SpecSettings). *)

\* The text holds nothing but whitespace.
isBlank(s) ==
    \A i \in 1..Len(s) : s[i] \in Whitespace

\* Text t is text s without the whitespace at its two ends.
isTrimmed(t, s) ==
    /\ t # <<>>
    /\ t[1] \notin Whitespace
    /\ t[Len(t)] \notin Whitespace
    /\ \E i \in 1..Len(s) :
          /\ i + Len(t) - 1 <= Len(s)
          /\ SubSeq(s, i, i + Len(t) - 1) = t
          /\ \A j \in 1..Len(s) :
                (j < i \/ j > i + Len(t) - 1) => s[j] \in Whitespace

\* C27: the save button of a category clicked on an input that is not
\* blank leaves that category configured, the stored key being the input
\* without the whitespace at its ends; clicked on an empty or blank input
\* it leaves the category unconfigured; the keys of the other three
\* categories, the registry, the histories and the media index stay.
C27_SaveSetsOneCredential ==
    [][ev'.op = "savekey" =>
          /\ ~isBlank(ev'.input) =>
                /\ getApiKey(ev'.key, apiKeys') # NoValue
                /\ isTrimmed(keyText(apiKeys'[ev'.key]), ev'.input)
          /\ isBlank(ev'.input) => getApiKey(ev'.key, apiKeys') = NoValue
          /\ \A c \in Categories \ {ev'.key} : apiKeys'[c] = apiKeys[c]
          /\ UNCHANGED << glintChatList, messagesHtml, glintMediaStorage,
                          selectedLanguage >>]_vars

\* A blank input has just cleared the key of one category while another
\* category kept its key and localStorage held a history and an asset.
C27_Witness ==
    /\ ev.op = "savekey"
    /\ ev.input # <<>>
    /\ isBlank(ev.input)
    /\ apiKeys[ev.key] = NoValue
    /\ \E c \in Categories : apiKeys[c] # NoValue
    /\ \E c \in ChatIds : messagesHtml[c] # <<>> /\ glintMediaStorage[c] # <<>>

----------------------------------------------------------------------------
(* The name of a chat (Spec). *)

\* The last handler ran loadChat up to its lookup of the chat's name.
lookedUp(e) ==
    e.loaded # NoChat /\ e.title # NoTitle

\* C28: the name loadChat looks up for an id is the name of the registry
\* entry with that id, or the default title when the registry has no such
\* entry; the lookup writes nothing: a handler that only loaded a chat
\* leaves the registry and the histories as they were; and two lookups of
\* one id with the same registry, one right after the other, give the same
\* name.
C28_NameLookupIsARead ==
    /\ [](lookedUp(ev) =>
            /\ registered(glintChatList, ev.loaded) =>
                  \E i \in 1..Len(glintChatList) :
                      /\ glintChatList[i].id = ev.loaded
                      /\ ev.title = [text |-> "Nai Chat", minute |-> glintChatList[i].name]
            /\ ~registered(glintChatList, ev.loaded) => ev.title = DefaultTitle)
    /\ [][/\ (lookedUp(ev') /\ ev'.created = <<>>) =>
                /\ glintChatList' = glintChatList
                /\ messagesHtml' = messagesHtml
          /\ (lookedUp(ev) /\ lookedUp(ev') /\ ev'.loaded = ev.loaded
              /\ glintChatList' = glintChatList) => ev'.title = ev.title]_vars

\* The chat page was loaded for a registered chat that an earlier page had
\* created and shown: the second lookup of its name.
C28_Witness ==
    /\ ev.op = "load"
    /\ ev.created = <<>>
    /\ lookedUp(ev)
    /\ ev.title.text = "Nai Chat"
    /\ registered(glintChatList, ev.loaded)
    /\ currentChatId = ev.loaded

----------------------------------------------------------------------------
(* Properties of the theme script (SpecTheme). *)

\* C29: after applyTheme or initializeTheme the stored theme is dark or
\* light: the argument, or the value stored before, when that is dark or
\* light, and light for anything else (a missing value, 'null', another
\* name); the class of the html element is the stored theme; and
\* applyTheme called again with the same argument changes nothing.
C29_ThemeIsDarkOrLight ==
    /\ [](ev.op \in {"applytheme", "inittheme"} =>
            /\ theme \in {"dark", "light"}
            /\ htmlClass = theme)
    /\ [][/\ ev'.op = "applytheme" =>
                theme' = IF ev'.themeName \in {"dark", "light"}
                         THEN ev'.themeName ELSE "light"
          /\ ev'.op = "inittheme" =>
                theme' = IF theme \in {"dark", "light"} THEN theme ELSE "light"
          /\ (ev.op = "applytheme" /\ ev'.op = "applytheme"
              /\ ev'.themeName = ev.themeName) =>
                (theme' = theme /\ htmlClass' = htmlClass)]_vars

\* applyTheme has just been called with a name that is no theme, and light
\* is stored and shown.
C29_Witness ==
    /\ ev.op = "applytheme"
    /\ ev.themeName = "blue"
    /\ theme = "light"
    /\ htmlClass = "light"

----------------------------------------------------------------------------
(* Loading placeholders in the stored histories (SpecStore). *)

\* Call s is pending: its timer is armed or its fetch is under way.
pending(s) ==
    s \in 1..Len(subs) /\ subs[s].stage \in {"timer", "inflight"}

\* C30: a stored history holds the loading placeholder of a message only
\* while that message is pending; once the message is resolved, or
\* abandoned by a reload or a switch of chat, no stored history holds its
\* placeholder.
C30_NoStalePlaceholderStored ==
    \A c \in ChatIds :
        \A k \in 1..Len(messagesHtml[c]) :
            messagesHtml[c][k].cls = "bot loading-message" =>
                pending(messagesHtml[c][k].sub)

----------------------------------------------------------------------------
(* What a save of the history writes (SpecStore). *)

\* C31: a step that writes a stored history (the end of a reply callback,
\* the display of a media bubble) writes the history of the chat that is
\* current, and writes it as the view of that moment; the histories of
\* the other chats, the registry and the credentials stay; the media index
\* stays when a reply is saved, and in a media handler it changes only by
\* the asset the handler stored before it displayed it.
C31_SaveWritesCurrentChatOnly ==
    [][messagesHtml' # messagesHtml =>
          /\ currentChatId # NoChat
          /\ currentChatId' = currentChatId
          /\ messagesHtml'[currentChatId] = innerHTML(messagesEl')
          /\ \A c \in ChatIds \ {currentChatId} : messagesHtml'[c] = messagesHtml[c]
          /\ glintChatList' = glintChatList
          /\ apiKeys' = apiKeys
          /\ ev'.op \in {"resolve", "capture", "voicesaved"}
          /\ ev'.op = "resolve" => glintMediaStorage' = glintMediaStorage
          /\ ev'.op # "resolve" =>
                /\ glintMediaStorage'[currentChatId] =
                      Append(glintMediaStorage[currentChatId],
                             mediaItem(saves'[ev'.save].id, currentChatId, ev'.save))
                /\ \A c \in MediaChats \ {currentChatId} :
                      glintMediaStorage'[c] = glintMediaStorage[c]]_vars

\* A media bubble has just been saved into the history of the current
\* chat while another chat had a stored history and assets of its own.
C31_Witness ==
    /\ ev.op = "capture"
    /\ currentChatId # NoChat
    /\ messagesHtml[currentChatId] # <<>>
    /\ messagesHtml[currentChatId] = innerHTML(messagesEl)
    /\ \E c \in ChatIds \ {currentChatId} :
          messagesHtml[c] # <<>> /\ glintMediaStorage[c] # <<>>

----------------------------------------------------------------------------
(* The canned coding reply of script.js (SpecCoding). *)

\* The text of call s holds a keyword of handleCodingRequest's list.
hasCodingKeyword(s) ==
    someIncluded(handleCodingKeywords, toLowerCase(subs[s].text))

\* The kinds of the timers armed for call s.
timerKindsOf(s) ==
    {timers[i].kind : i \in {j \in 1..Len(timers) : timers[j].sub = s}}

\* C32: in script.js a message that holds a keyword of handleCodingRequest
\* gets the canned coding reply and no provider call, whatever the
\* classifier said and whatever credentials are stored; a message that
\* holds none takes the provider path when the category the classifier
\* gave it has a credential and the demo path when it has none.
C32_KeywordMeansCannedReply ==
    build = "script.js" =>
        \A s \in 1..Len(subs) :
            /\ subs[s].apiType = detectApiType(build, subs[s].text)
            /\ IF hasCodingKeyword(s)
               THEN /\ subs[s].fetches = 0
                    /\ subs[s].path \in {"", "canned"}
                    /\ timerKindsOf(s) \subseteq {"canned"}
                    /\ subs[s].stage # "inflight"
                    /\ subs[s].stage = "done" =>
                          /\ subs[s].path = "canned"
                          /\ \A k \in repliesOf(messagesHtml[subs[s].chat], s) :
                                messagesHtml[subs[s].chat][k].body =
                                    <<"canned coding reply", "english">>
                          /\ Cardinality(repliesOf(messagesHtml[subs[s].chat], s)) = 1
               ELSE /\ subs[s].path # "canned"
                    /\ timerKindsOf(s) \subseteq {"reply"}
                    /\ subs[s].stage \in {"inflight", "done"} =>
                          /\ subs[s].credential = getApiKey(subs[s].apiType, apiKeys)
                          /\ subs[s].path =
                                IF subs[s].credential = NoValue THEN "demo"
                                ELSE "provider"

\* The canned reply was given to a message the classifier called voice,
\* and to one it called image, while those categories had credentials.
C32_Witness ==
    /\ build = "script.js"
    /\ \E s \in 1..Len(subs) :
          /\ hasCodingKeyword(s)
          /\ subs[s].apiType = "voice"
          /\ apiKeys["voice"] # NoValue
          /\ subs[s].stage = "done"
          /\ subs[s].path = "canned"
    /\ \E s \in 1..Len(subs) :
          /\ hasCodingKeyword(s)
          /\ subs[s].apiType = "image"
          /\ apiKeys["image"] # NoValue
          /\ subs[s].stage = "done"

----------------------------------------------------------------------------
(* What the append of an entry schedules (SpecStore). *)

\* The timers armed for call s.
timersOf(ts, s) ==
    {i \in 1..Len(ts) : ts[i].sub = s}

\* C33: a step that appends a user entry through addMessage (typed text,
\* the announcement of a captured photo or of a saved recording) records
\* the category the classifier gives its text and arms exactly one timer,
\* whose callback takes the provider call or the demo reply; a step that
\* appends a bot entry through addMessage arms none.
C33_UserEntrySpawnsOneResolution ==
    [][/\ (/\ ev'.op \in {"submit", "retry", "capture", "voicesaved"}
           /\ ev'.sub # 0
           /\ bubblesOf(messagesEl', ev'.sub, {"user"}) # {})
          => /\ subs'[ev'.sub].apiType = detectApiType(build, subs'[ev'.sub].text)
             /\ Cardinality(timersOf(timers', ev'.sub)) = 1
             /\ \A i \in timersOf(timers', ev'.sub) : timers'[i].kind = "reply"
             /\ Len(timers') = Len(timers) + (IF ev'.op = "retry" THEN 0 ELSE 1)
       /\ ev'.op = "voicerejected" => (timers' = timers /\ subs' = subs)]_vars

----------------------------------------------------------------------------
(* The order of the replies (SpecFault: no credential is stored). *)

\* Call s still has a callback to come: a retry, a reply timer or a fetch.
unresolved(s) ==
    subs[s].stage \in {"retry", "timer", "inflight"}

\* C34: with no credential stored, the replies are recorded in the order
\* of the submissions: a message is not answered while an earlier message
\* of the page still awaits its reply, unless that earlier message waits
\* on a provider call.
C34_DemoRepliesInSubmissionOrder ==
    \A s1, s2 \in 1..Len(subs) :
        (s1 < s2 /\ subs[s2].stage = "done") =>
            /\ unresolved(s1) => subs[s1].stage = "inflight"
            /\ (subs[s1].stage = "done" /\ subs[s1].rank > subs[s2].rank) =>
                  subs[s1].fetches > 0

----------------------------------------------------------------------------
(* The credential a reply callback reads (Spec). *)

\* C35: when the timer of a message runs, the path its callback takes is
\* chosen by the credential stored at that moment, whatever was stored
\* when the message was submitted: the provider when the category has a
\* credential, the demo reply when it has none; and the dispatch reads the
\* same credential, so it never fails for a missing one.
C35_PathFromCredentialAtCallback ==
    [][\A s \in 1..Len(subs) :
          (subs[s].stage = "timer" /\ subs'[s].stage \in {"inflight", "done"}) =>
              LET apiKey == getApiKey(subs[s].apiType, apiKeys) IN
              /\ subs'[s].credential = apiKey
              /\ subs'[s].path = IF apiKey = NoValue THEN "demo" ELSE "provider"
              /\ \A k \in bubblesOf(messagesEl', s, {"bot error"}) :
                    messagesEl'[k].body #
                        <<"API Error", NotConfiguredError(subs[s].apiType).tag, "">>]_vars

----------------------------------------------------------------------------
(* What a page load and the New Chat button add to the registry
   (SpecDrawer). *)

\* chatList is list with one chat put at its head.
oneAdded(list, chatList) ==
    /\ Len(chatList) = Len(list) + 1
    /\ Tail(chatList) = list

\* C36: a load of the chat page without a chatId puts exactly one chat at
\* the head of the registry and makes it current; the New Chat button puts
\* exactly one chat at the head and the reload it forces makes that chat
\* current and adds none; a load with a chatId makes that id current and
\* leaves the registry as it was, registered or not.
C36_LoadAddsOneChatOrNone ==
    [][/\ PageLoad("chat", NoChat) =>
              /\ oneAdded(glintChatList, glintChatList')
              /\ currentChatId' = Head(glintChatList').id
       /\ NewChatClick =>
              /\ oneAdded(glintChatList, glintChatList')
              /\ navTo' = Head(glintChatList').id
       /\ \A id \in ChatIds :
              PageLoad("chat", id) =>
                  /\ currentChatId' = id
                  /\ glintChatList' = glintChatList
                  /\ navTo = id => Head(glintChatList).id = id]_vars

----------------------------------------------------------------------------
(* A bot message with no current chat (SpecStore). *)

\* C37: addMessage(text, 'bot') called while no chat is current (here by
\* the handler of a voice recording that could not be read) does nothing:
\* no chat is made, the view and the stored histories keep their entries,
\* no timer is armed and no message is queued, and the registry and the
\* current chat stay as they were.
C37_BotMessageWithoutChatIsDiscarded ==
    [][(ev'.op = "voicerejected" /\ currentChatId = NoChat) =>
          /\ glintChatList' = glintChatList
          /\ currentChatId' = NoChat
          /\ navTo' = navTo
          /\ messagesEl' = messagesEl
          /\ messagesHtml' = messagesHtml
          /\ timers' = timers
          /\ subs' = subs
          /\ ev'.created = <<>>]_vars

\* The bot message of a rejected recording has just been discarded on a
\* page with no current chat, while the registry held a chat.
C37_Witness ==
    /\ ev.op = "voicerejected"
    /\ currentChatId = NoChat
    /\ glintChatList # <<>>
    /\ \A k \in 1..Len(messagesEl) : messagesEl[k].cls # "bot"

====
